---- MODULE Spec2Model ----
(***************************************************************************)
(* DX Freight Routing: the allocation engine get_allocations of            *)
(* app/main.py, run one loop iteration at a time over the stored tables.   *)
(*                                                                         *)
(* Units.  distance_miles is stored rounded to two decimals, so a distance *)
(* is kept as an integer number of hundredths of a mile.  The travel time  *)
(* (distance / 40) * 60 is 3/200 of a minute per hundredth of a mile, so   *)
(* arrival times are kept in ticks of 1/200 minute.  Money is kept in      *)
(* thousandths of a pound (1.80 per mile = 18 per hundredth of a mile).    *)
(* A time string is the sequence of its characters.                        *)
(***************************************************************************)
EXTENDS Integers, Sequences, FiniteSets, TLC

VARIABLES
    \* stored tables (rows in insertion order)
    daily_volumes, manual_overrides, capacity_overrides,
    depots, collection_points, cp_depot_distances,
    \* one get_allocations call
    pc, selected_date, volumes_sorted, override_map, depot_map,
    depot_base_capacities, depot_allocated, allocations,
    vi, trailer_num, distances, depot_summaries,
    \* the collection points and distance rows stored when that call began
    at_start,
    \* what earlier calls returned, per date
    returned,
    \* the last direct call of one of the helper functions: name, arguments, result
    probe,
    \* the import_volumes_upload requests under way: the rows of the file still
    \* to be read and the rows added to the session and not yet committed
    uploads,
    \* the users table: failed_login_attempts, locked_until and is_active of
    \* each username
    users,
    \* datetime.utcnow(), in minutes
    clock,
    \* the last login request and the response it got
    response

db_vars == <<daily_volumes, manual_overrides, capacity_overrides,
             depots, collection_points, cp_depot_distances>>
run_vars == <<pc, selected_date, volumes_sorted, override_map, depot_map,
              depot_base_capacities, depot_allocated, allocations,
              vi, trailer_num, distances, depot_summaries, at_start>>
auth_vars == <<users, clock, response>>
web_vars == <<uploads, auth_vars>>
vars == <<db_vars, run_vars, returned, probe, web_vars>>

----------------------------------------------------------------------------
(* Bounds of the explored inputs *)

MaxVolumes == 2
MaxOverrides == 1
MaxCapOverrides == 1

None == "None"

\* no call for the date has returned yet
NotReturned == [status |-> "none", allocations |-> <<>>, depot_summaries |-> <<>>]

\* no helper function has been called directly
NoProbe == [fn |-> "none", args |-> <<>>, result |-> 0]

\* the requests that can be under way at the same time
Requests == {1, 2}

\* no import request is under way
NoUpload == [state |-> "none", file |-> <<>>, pending |-> <<>>]

\* locked_until = None
NoLock == -1

\* the users init_db and add_user store: no failed attempt, no lock, active
NewUser == [failed_login_attempts |-> 0, locked_until |-> NoLock, is_active |-> TRUE]

\* no login request has been made
NoResponse ==
    [request |-> 0, username |-> "", password_ok |-> FALSE, csrf_ok |-> FALSE,
     outcome |-> "none"]

\* no request of the web application is under way, and the users are as
\* they were created
NoRequests ==
    /\ uploads = [r \in Requests |-> NoUpload]
    /\ users = [u \in {"admin", "operator"} |-> NewUser]
    /\ clock = 0
    /\ response = NoResponse

----------------------------------------------------------------------------
(* Time strings *)

T0700 == <<"0", "7", ":", "0", "0">>
T0800 == <<"0", "8", ":", "0", "0">>
T0900 == <<"0", "9", ":", "0", "0">>
T1800 == <<"1", "8", ":", "0", "0">>

Digits == {"0", "1", "2", "3", "4", "5", "6", "7", "8", "9"}
DigitChars == <<"0", "1", "2", "3", "4", "5", "6", "7", "8", "9">>
DigitVal(c) == CHOOSE n \in 0..9 : DigitChars[n + 1] = c

ValueError == -1

\* str.split(':')
RECURSIVE SplitColon(_)
SplitColon(s) ==
    IF s = <<>> THEN << <<>> >>
    ELSE LET rest == SplitColon(Tail(s)) IN
         IF Head(s) = ":" THEN << <<>> >> \o rest
         ELSE << <<Head(s)>> \o Head(rest) >> \o Tail(rest)

\* int(text) for an unsigned decimal; ValueError when text is no number
RECURSIVE DecimalValue(_)
DecimalValue(p) ==
    IF p = <<>> THEN 0
    ELSE DecimalValue(SubSeq(p, 1, Len(p) - 1)) * 10 + DigitVal(p[Len(p)])

ParseInt(p) ==
    IF p # <<>> /\ \A i \in 1..Len(p) : p[i] \in Digits
    THEN DecimalValue(p) ELSE ValueError

\* time_to_minutes: "HH:MM" -> minutes since midnight, 540 for a falsy string
time_to_minutes(time_str) ==
    IF time_str = <<>> THEN 540
    ELSE LET parts == SplitColon(time_str) IN
         IF Len(parts) = 2 /\ ParseInt(parts[1]) # ValueError
                           /\ ParseInt(parts[2]) # ValueError
         THEN ParseInt(parts[1]) * 60 + ParseInt(parts[2])
         ELSE ValueError

\* f"{n:02d}" for n >= 0
RECURSIVE DecimalText(_)
DecimalText(n) ==
    IF n < 10 THEN <<DigitChars[n + 1]>>
    ELSE DecimalText(n \div 10) \o <<DigitChars[(n % 10) + 1]>>

TwoDigits(n) == IF n < 10 THEN <<"0">> \o DecimalText(n) ELSE DecimalText(n)

\* minutes_to_time: mins (in ticks of 1/200 minute) -> "HH:MM"
minutes_to_time(mins) ==
    LET whole == mins \div 200
        h == whole \div 60
        m == whole % 60
    IN TwoDigits(h) \o <<":">> \o TwoDigits(m)

\* volume.collection_time or "09:00" (an absent or empty string is <<>>)
OrDefault(time_str, default) ==
    IF time_str = <<>> THEN default ELSE time_str

----------------------------------------------------------------------------
(* Stored data *)

Dates == {1, 2}

\* Depot rows: after import_depots (a blank capacity cell is stored as 0)
DepotRows == <<
    [depot_id |-> "D001", daily_capacity |-> 2000,
     sortation_start_time |-> T0800, cutoff_time |-> T1800, is_active |-> TRUE],
    [depot_id |-> "D002", daily_capacity |-> 3000,
     sortation_start_time |-> T0800, cutoff_time |-> T1800, is_active |-> TRUE],
    [depot_id |-> "D003", daily_capacity |-> 0,
     sortation_start_time |-> T0800, cutoff_time |-> T1800, is_active |-> TRUE] >>

CollectionPointRows == <<[cpid |-> "CP001"], [cpid |-> "CP002"]>>

\* CPDepotDistance rows; CP002 was ranked before D001 was imported
DistanceRows == <<
    [cpid |-> "CP002", depot_id |-> "D003", distance_miles |-> 500, rank |-> 1],
    [cpid |-> "CP002", depot_id |-> "D002", distance_miles |-> 3000, rank |-> 2],
    [cpid |-> "CP001", depot_id |-> "D001", distance_miles |-> 1000, rank |-> 1],
    [cpid |-> "CP001", depot_id |-> "D003", distance_miles |-> 2000, rank |-> 2],
    [cpid |-> "CP001", depot_id |-> "D002", distance_miles |-> 8800, rank |-> 3] >>

\* Rows import_volumes_upload can store: (parcels, trailers, collection time)
\* per collection point for date 1, and one row for date 2; the two counts
\* are taken as int() of the cell, whatever the number
Loads == {<<5000, 3, T0900>>, <<7, 2, T0700>>, <<5, 0, T0900>>, <<0, 1, T0900>>}

VolumeRows ==
    {[date |-> 1, cpid |-> "CP001", parcels |-> l[1], trailers |-> l[2],
      collection_time |-> l[3]] : l \in Loads}
    \cup {[date |-> 1, cpid |-> "CP002", parcels |-> l[1], trailers |-> l[2],
           collection_time |-> l[3]] : l \in {<<5000, 3, T0900>>, <<7, 2, T0700>>}}
    \cup {[date |-> 2, cpid |-> "CP001", parcels |-> 7, trailers |-> 2,
           collection_time |-> T0900]}

\* Rows add_override can store: any depot id is accepted, D999 names no depot
OverrideRows ==
    {[date |-> 1, cpid |-> "CP001", trailer_number |-> 1,
      collection_time |-> T0900, to_depot_id |-> x] : x \in {"D001", "D003", "D999"}}
    \cup {[date |-> 1, cpid |-> "CP001", trailer_number |-> 3,
           collection_time |-> T0900, to_depot_id |-> "D003"],
          [date |-> 1, cpid |-> "CP001", trailer_number |-> 1,
           collection_time |-> T0700, to_depot_id |-> "D001"],
          [date |-> 2, cpid |-> "CP001", trailer_number |-> 1,
           collection_time |-> T0900, to_depot_id |-> "D003"],
          \* D001 is not in the ranking of CP002
          [date |-> 1, cpid |-> "CP002", trailer_number |-> 1,
           collection_time |-> T0900, to_depot_id |-> "D001"]}

\* Rows add_capacity_override can store
CapacityOverrideRows ==
    {[date |-> 1, depot_id |-> "D002", override_capacity |-> c] : c \in {0, 5000}}
    \cup {[date |-> 1, depot_id |-> "D001", override_capacity |-> 0],
          [date |-> 1, depot_id |-> "D001", override_capacity |-> 5000],
          [date |-> 2, depot_id |-> "D001", override_capacity |-> 0]}

VolumeKey(v) == <<v.date, v.cpid>>
OverrideKey(o) == <<o.date, o.cpid, o.trailer_number, o.collection_time>>
CapacityOverrideKey(co) == <<co.date, co.depot_id>>

\* the subsets of S with at most k elements
RECURSIVE SubsetsUpTo(_, _)
SubsetsUpTo(S, k) ==
    IF k = 0 THEN {{}}
    ELSE LET P == SubsetsUpTo(S, k - 1) IN P \cup {p \cup {x} : p \in P, x \in S}

\* import_volumes_upload skips a row whose (date, cpid) is already stored
VolumeTables ==
    {t \in UNION {[1..n -> VolumeRows] : n \in 0..MaxVolumes} :
        \A i, j \in 1..Len(t) : i # j => VolumeKey(t[i]) # VolumeKey(t[j])}

\* add_override refuses a second row for the same key
OverrideTables ==
    {t \in SubsetsUpTo(OverrideRows, MaxOverrides) :
        \A a, b \in t : a # b => OverrideKey(a) # OverrideKey(b)}

\* add_capacity_override refuses a second row for the same (date, depot)
CapacityOverrideTables ==
    {t \in SubsetsUpTo(CapacityOverrideRows, MaxCapOverrides) :
        \A a, b \in t : a # b => CapacityOverrideKey(a) # CapacityOverrideKey(b)}

Init ==
    /\ daily_volumes \in VolumeTables
    /\ manual_overrides \in OverrideTables
    /\ capacity_overrides \in CapacityOverrideTables
    /\ depots = DepotRows
    /\ collection_points = CollectionPointRows
    /\ cp_depot_distances = DistanceRows
    /\ pc = "idle"
    /\ selected_date = 0
    /\ volumes_sorted = <<>>
    /\ override_map = <<>>
    /\ depot_map = <<>>
    /\ depot_base_capacities = <<>>
    /\ depot_allocated = <<>>
    /\ allocations = <<>>
    /\ vi = 0
    /\ trailer_num = 0
    /\ distances = <<>>
    /\ depot_summaries = <<>>
    /\ at_start = <<>>
    /\ returned = [d \in Dates |-> NotReturned]
    /\ probe = NoProbe
    /\ NoRequests

----------------------------------------------------------------------------
(* Pure helpers of get_allocations *)

Max(a, b) == IF a >= b THEN a ELSE b

\* mutant: the minimum fee is not applied
calculate_cost_without_minimum(distance_miles) == 150000 + 18 * distance_miles

\* calculate_cost: 150 + 1.80 per mile, at least 200 (thousandths of a pound)
calculate_cost(distance_miles) == Max(150000 + 18 * distance_miles, 200000)

\* mutant: the hour of loading is left out
calculate_arrival_time_without_loading(collection_time_str, distance_miles) ==
    time_to_minutes(collection_time_str) * 200 + 3 * distance_miles

\* calculate_arrival_time: collection + 60 min loading + travel at 40 mph (ticks)
calculate_arrival_time(collection_time_str, distance_miles) ==
    (time_to_minutes(collection_time_str) + 60) * 200 + 3 * distance_miles

\* int(x) of the quotient num / den, den > 0: truncation towards zero
Truncate(num, den) ==
    IF num >= 0 THEN num \div den ELSE -((-num) \div den)

\* base_capacity * (time_remaining / total_window) is evaluated in IEEE-754
\* doubles.  Where the exact value is a whole number the double product can
\* fall just below it, and int() then yields one less.  These are the
\* (base_capacity, time_remaining, total_window) of the stored data, in
\* ticks, for which CPython's doubles do so.
DoubleFallsBelow == {<<3000, 69600, 120000>>}

\* int(base_capacity * (time_remaining / total_window))
ScaledCapacity(base_capacity, time_remaining, total_window) ==
    Truncate(base_capacity * time_remaining, total_window)
      - (IF <<base_capacity, time_remaining, total_window>> \in DoubleFallsBelow
         THEN 1 ELSE 0)

\* mutant: full capacity anywhere inside the sortation window
calculate_available_capacity_full_in_window(depot, arrival_mins, base_capacity) ==
    LET cutoff_mins == 200 * time_to_minutes(OrDefault(depot.cutoff_time, T1800))
    IN IF arrival_mins >= cutoff_mins THEN 0 ELSE base_capacity

\* calculate_available_capacity: full before sortation starts, none from the
\* cutoff on, linear reduction in between
calculate_available_capacity(depot, arrival_mins, base_capacity) ==
    LET start_mins == 200 * time_to_minutes(OrDefault(depot.sortation_start_time, T0800))
        cutoff_mins == 200 * time_to_minutes(OrDefault(depot.cutoff_time, T1800))
        total_window == cutoff_mins - start_mins
        time_remaining == cutoff_mins - arrival_mins
    IN IF arrival_mins <= start_mins THEN base_capacity
       ELSE IF arrival_mins >= cutoff_mins THEN 0
       ELSE IF total_window <= 0 THEN 0
       ELSE ScaledCapacity(base_capacity, time_remaining, total_window)

\* dict.get(key, default)
Get(map, key, default) == IF key \in DOMAIN map THEN map[key] ELSE default

\* sorted(volumes, key = minutes of the collection time), a stable sort
SortKey(v) == time_to_minutes(OrDefault(v.collection_time, T0900))

\* mutant: a row is put before the rows of equal collection time
RECURSIVE InsertVolumeBeforeEqual(_, _)
InsertVolumeBeforeEqual(sorted, v) ==
    IF sorted = <<>> THEN <<v>>
    ELSE IF SortKey(sorted[Len(sorted)]) < SortKey(v) THEN Append(sorted, v)
    ELSE Append(InsertVolumeBeforeEqual(SubSeq(sorted, 1, Len(sorted) - 1), v),
                sorted[Len(sorted)])

RECURSIVE InsertVolume(_, _)
InsertVolume(sorted, v) ==
    IF sorted = <<>> THEN <<v>>
    ELSE IF SortKey(sorted[Len(sorted)]) <= SortKey(v) THEN Append(sorted, v)
    ELSE Append(InsertVolume(SubSeq(sorted, 1, Len(sorted) - 1), v),
                sorted[Len(sorted)])

RECURSIVE SortVolumes(_)
SortVolumes(volumes) ==
    IF volumes = <<>> THEN <<>>
    ELSE InsertVolume(SortVolumes(SubSeq(volumes, 1, Len(volumes) - 1)),
                      volumes[Len(volumes)])

\* query(CPDepotDistance).filter(cpid == ...).order_by(rank)
RECURSIVE InsertByRank(_, _)
InsertByRank(sorted, r) ==
    IF sorted = <<>> THEN <<r>>
    ELSE IF sorted[Len(sorted)].rank <= r.rank THEN Append(sorted, r)
    ELSE Append(InsertByRank(SubSeq(sorted, 1, Len(sorted) - 1), r),
                sorted[Len(sorted)])

RECURSIVE OrderByRank(_)
OrderByRank(rows) ==
    IF rows = <<>> THEN <<>>
    ELSE InsertByRank(OrderByRank(SubSeq(rows, 1, Len(rows) - 1)), rows[Len(rows)])

DistancesOf(cpid) ==
    OrderByRank(SelectSeq(cp_depot_distances, LAMBDA r : r.cpid = cpid))

\* mutant: the row of the collection point is taken to exist
CollectionPointAssumed(cpid) == cpid \in {cpid}

\* query(CollectionPoint).filter(cpid == ...).first() finds a row
CollectionPointExists(cpid) ==
    \E i \in 1..Len(collection_points) : collection_points[i].cpid = cpid

\* depot_map.get(depot_id) finds a depot
InDepotMap(depot_id) ==
    \E i \in 1..Len(depot_map) : depot_map[i].depot_id = depot_id

\* depot_map[depot_id]
DepotOf(depot_id) ==
    depot_map[CHOOSE i \in 1..Len(depot_map) : depot_map[i].depot_id = depot_id]

----------------------------------------------------------------------------
(* The allocation loop *)

parcels_per_trailer(volume) ==
    IF volume.trailers > 0 THEN volume.parcels \div volume.trailers
    ELSE volume.parcels

remainder(volume) ==
    IF volume.trailers > 0 THEN volume.parcels % volume.trailers ELSE 0

\* mutant: the extra parcel goes to the trailers below the remainder only
trailer_parcels_below_remainder(volume, n) ==
    parcels_per_trailer(volume) + (IF n < remainder(volume) THEN 1 ELSE 0)

trailer_parcels(volume, n) ==
    parcels_per_trailer(volume) + (IF n <= remainder(volume) THEN 1 ELSE 0)

\* the capacity available to a trailer collected at collection_time at the
\* depot of the distance row dist
AvailableAt(dist, collection_time) ==
    calculate_available_capacity(
        DepotOf(dist.depot_id),
        calculate_arrival_time(collection_time, dist.distance_miles),
        Get(depot_base_capacities, dist.depot_id, 0))

\* mutant: the check forgets what the depot already holds
HasRoomIgnoringAllocated(dist, collection_time, parcels) ==
    /\ InDepotMap(dist.depot_id)
    /\ Get(depot_base_capacities, dist.depot_id, 0) > 0
    /\ parcels <= AvailableAt(dist, collection_time)

\* the body of the first-fit scan for one distance row: the depot is active,
\* has capacity for the date, and has room at the arrival time
HasRoom(dist, collection_time, parcels) ==
    /\ InDepotMap(dist.depot_id)
    /\ Get(depot_base_capacities, dist.depot_id, 0) > 0
    /\ depot_allocated[dist.depot_id] + parcels
          <= AvailableAt(dist, collection_time)

\* time_to_minutes raises ValueError on the sortation start or the cutoff
WindowUnreadable(depot) ==
    \/ time_to_minutes(OrDefault(depot.sortation_start_time, T0800)) = ValueError
    \/ time_to_minutes(OrDefault(depot.cutoff_time, T1800)) = ValueError

\* the first-fit scan comes to a depot whose window cannot be read before it
\* finds a depot with room: calculate_available_capacity raises
ScanRaises(collection_time, parcels) ==
    LET unreadable == {i \in 1..Len(distances) :
                          /\ InDepotMap(distances[i].depot_id)
                          /\ Get(depot_base_capacities, distances[i].depot_id, 0) > 0
                          /\ WindowUnreadable(DepotOf(distances[i].depot_id))}
    IN /\ unreadable # {}
       /\ \A j \in 1..Len(distances) :
              (\A i \in unreadable : j < i) => ~HasRoom(distances[j], collection_time, parcels)

\* mutant: the scan keeps going and ends on the farthest depot with room
FirstFitFarthest(collection_time, parcels) ==
    LET fits == {i \in 1..Len(distances) :
                    HasRoom(distances[i], collection_time, parcels)}
    IN IF fits = {} THEN 0 ELSE CHOOSE i \in fits : \A j \in fits : i >= j

\* index in distances of the depot the first-fit scan stops at, 0 for none
FirstFit(collection_time, parcels) ==
    LET fits == {i \in 1..Len(distances) :
                    HasRoom(distances[i], collection_time, parcels)}
    IN IF fits = {} THEN 0 ELSE CHOOSE i \in fits : \A j \in fits : i <= j

\* mutant: the fallback looks at the nearest depot only
PeakTargetRankOneOnly ==
    IF distances # <<>> /\ Get(depot_base_capacities, distances[1].depot_id, 0) > 0
    THEN 1 ELSE 0

\* mutant: the fallback takes the nearest depot whatever its capacity
PeakTargetNearest == IF distances = <<>> THEN 0 ELSE 1

\* index in distances of the peak-arrival target, 0 for none
PeakTarget ==
    LET open == {i \in 1..Len(distances) :
                    Get(depot_base_capacities, distances[i].depot_id, 0) > 0}
    IN IF open = {} THEN 0 ELSE CHOOSE i \in open : \A j \in open : i <= j

\* mutant: the fallback forgets to raise the peak-arrival flag
AssignmentUnflagged(volume, n) ==
    LET collection_time == OrDefault(volume.collection_time, T0900)
        override_key == <<volume.cpid, n, collection_time>>
        fit == FirstFit(collection_time, trailer_parcels(volume, n))
    IN IF override_key \in DOMAIN override_map
       THEN [depot_id |-> override_map[override_key],
             is_override |-> TRUE, is_peak_arrival |-> FALSE]
       ELSE IF fit # 0
       THEN [depot_id |-> distances[fit].depot_id,
             is_override |-> FALSE, is_peak_arrival |-> FALSE]
       ELSE IF PeakTarget # 0
       THEN [depot_id |-> distances[PeakTarget].depot_id,
             is_override |-> FALSE, is_peak_arrival |-> FALSE]
       ELSE [depot_id |-> None,
             is_override |-> FALSE, is_peak_arrival |-> FALSE]

\* the depot chosen for trailer n of volume, with the two flags
Assignment(volume, n) ==
    LET collection_time == OrDefault(volume.collection_time, T0900)
        override_key == <<volume.cpid, n, collection_time>>
        fit == FirstFit(collection_time, trailer_parcels(volume, n))
    IN IF override_key \in DOMAIN override_map
       THEN [depot_id |-> override_map[override_key],
             is_override |-> TRUE, is_peak_arrival |-> FALSE]
       ELSE IF fit # 0
       THEN [depot_id |-> distances[fit].depot_id,
             is_override |-> FALSE, is_peak_arrival |-> FALSE]
       ELSE IF PeakTarget # 0
       THEN [depot_id |-> distances[PeakTarget].depot_id,
             is_override |-> FALSE, is_peak_arrival |-> TRUE]
       ELSE [depot_id |-> None,
             is_override |-> FALSE, is_peak_arrival |-> FALSE]

\* the distance of the assigned depot, 0 when it is not in the ranking
DistanceTo(depot_id) ==
    LET hits == {i \in 1..Len(distances) : distances[i].depot_id = depot_id}
    IN IF hits = {} THEN 0
       ELSE distances[CHOOSE i \in hits : \A j \in hits : i <= j].distance_miles

AllocationRecord(volume, n, a) ==
    LET collection_time == OrDefault(volume.collection_time, T0900)
        distance == DistanceTo(a.depot_id)
    IN [cpid |-> volume.cpid,
        trailer_num |-> n,
        parcels |-> trailer_parcels(volume, n),
        depot_id |-> a.depot_id,
        distance |-> distance,
        cost |-> calculate_cost(distance),
        is_override |-> a.is_override,
        collection_time |-> collection_time,
        arrival_time |-> minutes_to_time(calculate_arrival_time(collection_time, distance)),
        is_peak_arrival |-> a.is_peak_arrival]

\* round() of a double to one decimal goes to the nearest tenth of the double
\* that allocated / base_cap * 100 evaluates to.  Where the exact value lies
\* halfway between two tenths the double lies beside it; these are the
\* (allocated, base_cap) halfway cases of the stored data, split by the side
\* CPython's double falls on.
TieRoundsUp == {<<7, 2000>>, <<1667, 2000>>, <<3333, 2000>>}
TieRoundsDown == {<<3, 2000>>, <<6667, 2000>>}

\* mutant: the percentage is cut off after the first decimal
UtilisationTruncated(allocated, base_cap) == (allocated * 1000) \div base_cap

\* round(allocated / base_cap * 100, 1), in tenths of a percent
Utilisation(allocated, base_cap) ==
    LET q == (allocated * 1000) \div base_cap
        r == (allocated * 1000) % base_cap
    IN IF 2 * r > base_cap THEN q + 1
       ELSE IF 2 * r < base_cap THEN q
       ELSE IF <<allocated, base_cap>> \in TieRoundsUp THEN q + 1
       ELSE IF <<allocated, base_cap>> \in TieRoundsDown THEN q
       ELSE IF q % 2 = 1 THEN q + 1 ELSE q

SummaryRecord(depot) ==
    LET base_cap == Get(depot_base_capacities, depot.depot_id, 0) IN
    [depot_id |-> depot.depot_id,
     allocated_parcels |-> Get(depot_allocated, depot.depot_id, 0),
     capacity |-> base_cap,
     utilisation |-> IF base_cap > 0
                     THEN Utilisation(Get(depot_allocated, depot.depot_id, 0), base_cap)
                     ELSE 0,
     sortation_start |-> OrDefault(depot.sortation_start_time, T0800),
     cutoff_time |-> OrDefault(depot.cutoff_time, T1800)]

\* mutant: the counters are kept from the call before
InitialAllocatedCarriedOver(active) ==
    IF DOMAIN depot_allocated = {active[i].depot_id : i \in 1..Len(active)}
    THEN depot_allocated
    ELSE [d \in {active[i].depot_id : i \in 1..Len(active)} |-> 0]

\* the counters a call starts with
InitialAllocated(active) == [d \in {active[i].depot_id : i \in 1..Len(active)} |-> 0]

\* mutant: the capacity overrides are not applied
BaseCapacitiesDaily(active, capacity_override_map) ==
    [d \in {active[i].depot_id : i \in 1..Len(active)} |->
        (active[CHOOSE i \in 1..Len(active) : active[i].depot_id = d]).daily_capacity]

\* depot_base_capacities: the date's override, else the daily capacity
BaseCapacities(active, capacity_override_map) ==
    [d \in {active[i].depot_id : i \in 1..Len(active)} |->
        IF d \in DOMAIN capacity_override_map THEN capacity_override_map[d]
        ELSE (active[CHOOSE i \in 1..Len(active) : active[i].depot_id = d]).daily_capacity]

\* mutant: the parcels of an overridden trailer are not counted
AllocatedAfterUnlessOverride(a, parcels) ==
    IF a.is_override THEN depot_allocated
    ELSE [depot_allocated EXCEPT ![a.depot_id] = @ + parcels]

\* depot_allocated[assigned_depot_id] += trailer_parcels
AllocatedAfter(a, parcels) ==
    [depot_allocated EXCEPT ![a.depot_id] = @ + parcels]

\* the position of the loops after the trailers of volume i are done
AfterVolume(i) ==
    IF i + 1 > Len(volumes_sorted) THEN "summary" ELSE "volume"

----------------------------------------------------------------------------
(* Actions: one call of get_allocations *)

\* lines 83-109: the queries, the maps and the sort
StartRun(d) ==
    LET volumes == SelectSeq(daily_volumes, LAMBDA v : v.date = d)
        overrides == {o \in manual_overrides : o.date = d}
        capacity_rows == {co \in capacity_overrides : co.date = d}
        capacity_override_map ==
            [x \in {co.depot_id : co \in capacity_rows} |->
                (CHOOSE co \in capacity_rows : co.depot_id = x).override_capacity]
        active == SelectSeq(depots, LAMBDA x : x.is_active)
    IN
    /\ pc = "idle"
    /\ selected_date' = d
    /\ at_start' = <<collection_points, cp_depot_distances>>
    /\ allocations' = <<>>
    /\ depot_summaries' = <<>>
    /\ IF volumes = <<>>
       THEN \* return [], [] before any other local is assigned
            /\ pc' = "done"
            /\ volumes_sorted' = <<>>
            /\ override_map' = <<>>
            /\ depot_map' = <<>>
            /\ depot_base_capacities' = <<>>
            /\ depot_allocated' = <<>>
            /\ vi' = 0
            /\ trailer_num' = 0
            /\ distances' = <<>>
       ELSE /\ override_map' =
                  [k \in {<<o.cpid, o.trailer_number, o.collection_time>> :
                              o \in overrides} |->
                      (CHOOSE o \in overrides :
                          <<o.cpid, o.trailer_number, o.collection_time>> = k).to_depot_id]
            /\ depot_map' = active
            /\ depot_allocated' = InitialAllocated(active)
            /\ depot_base_capacities' = BaseCapacities(active, capacity_override_map)
            /\ IF \E i \in 1..Len(volumes) : SortKey(volumes[i]) = ValueError
               THEN /\ pc' = "error"
                    /\ UNCHANGED <<volumes_sorted, vi>>
               ELSE /\ volumes_sorted' = SortVolumes(volumes)
                    /\ vi' = 1
                    /\ pc' = "volume"
            /\ trailer_num' = 0
            /\ distances' = <<>>
    /\ UNCHANGED <<db_vars, web_vars, probe, returned>>

\* lines 111-122: the head of the loop over volumes_sorted
NextVolume ==
    LET volume == volumes_sorted[vi] IN
    /\ pc = "volume"
    /\ IF ~CollectionPointExists(volume.cpid)
       THEN /\ vi' = vi + 1
            /\ pc' = AfterVolume(vi)
            /\ UNCHANGED <<distances, trailer_num>>
       ELSE /\ distances' = DistancesOf(volume.cpid)
            /\ IF volume.trailers >= 1
               THEN /\ trailer_num' = 1
                    /\ pc' = "trailer"
                    /\ vi' = vi
               ELSE /\ vi' = vi + 1
                    /\ pc' = AfterVolume(vi)
                    /\ UNCHANGED trailer_num
    /\ UNCHANGED <<db_vars, web_vars, probe, returned, at_start, selected_date, volumes_sorted,
                   override_map, depot_map, depot_base_capacities,
                   depot_allocated, allocations, depot_summaries>>

\* lines 124-193: one iteration of the loop over the trailers
ProcessTrailer ==
    LET volume == volumes_sorted[vi]
        a == Assignment(volume, trailer_num)
        last == trailer_num + 1 > volume.trailers
    IN
    /\ pc = "trailer"
    /\ IF /\ <<volume.cpid, trailer_num, OrDefault(volume.collection_time, T0900)>>
                \notin DOMAIN override_map
          /\ ScanRaises(OrDefault(volume.collection_time, T0900),
                        trailer_parcels(volume, trailer_num))
       THEN \* time_to_minutes raises ValueError in calculate_available_capacity
            /\ pc' = "error"
            /\ UNCHANGED <<depot_allocated, allocations, vi, trailer_num>>
       ELSE IF a.depot_id # None /\ a.depot_id \notin DOMAIN depot_allocated
       THEN \* depot_allocated[assigned_depot_id] raises KeyError
            /\ pc' = "error"
            /\ UNCHANGED <<depot_allocated, allocations, vi, trailer_num>>
       ELSE /\ IF a.depot_id # None
               THEN /\ depot_allocated' =
                         AllocatedAfter(a, trailer_parcels(volume, trailer_num))
                    /\ allocations' =
                         Append(allocations, AllocationRecord(volume, trailer_num, a))
               ELSE UNCHANGED <<depot_allocated, allocations>>
            /\ IF last
               THEN /\ vi' = vi + 1
                    /\ pc' = AfterVolume(vi)
                    /\ UNCHANGED trailer_num
               ELSE /\ trailer_num' = trailer_num + 1
                    /\ UNCHANGED <<vi, pc>>
    /\ UNCHANGED <<db_vars, web_vars, probe, returned, at_start, selected_date, volumes_sorted,
                   override_map, depot_map, depot_base_capacities,
                   distances, depot_summaries>>

\* mutant: every active depot gets a summary
InSummaryAlways(depot) == depot.is_active

\* the depot is not skipped by `if allocated == 0: continue`
InSummary(depot) == Get(depot_allocated, depot.depot_id, 0) # 0

\* lines 195-212: the summaries of the depots with allocated parcels
BuildSummaries ==
    LET kept == SelectSeq(depot_map, LAMBDA x : InSummary(x))
    IN
    /\ pc = "summary"
    /\ depot_summaries' = [i \in 1..Len(kept) |-> SummaryRecord(kept[i])]
    /\ pc' = "done"
    /\ UNCHANGED <<db_vars, web_vars, probe, returned, at_start, selected_date, volumes_sorted,
                   override_map, depot_map, depot_base_capacities,
                   depot_allocated, allocations, vi, trailer_num, distances>>

\* the call returns (allocations, depot_summaries) or raises
Return ==
    /\ pc \in {"done", "error"}
    /\ returned' = [returned EXCEPT ![selected_date] =
                       IF pc = "done"
                       THEN [status |-> "ok", allocations |-> allocations,
                             depot_summaries |-> depot_summaries]
                       ELSE [status |-> "error", allocations |-> <<>>,
                             depot_summaries |-> <<>>]]
    /\ pc' = "idle"
    /\ UNCHANGED <<db_vars, web_vars, probe, at_start, selected_date, volumes_sorted, override_map,
                   depot_map, depot_base_capacities, depot_allocated,
                   allocations, vi, trailer_num, distances, depot_summaries>>

----------------------------------------------------------------------------
(* depot_allocations_page: the summary the page builds from the allocations
   get_allocations returned for the date (lines 920-960).  The page's
   utilisation is not rounded; it is kept as the pair <<n, d>> that stands
   for the percentage n / d * 100. *)

\* the allocations of allocs that name the depot, in order
AllocationsAt(allocs, depot_id) ==
    SelectSeq(allocs, LAMBDA a : a.depot_id = depot_id)

RECURSIVE SumParcels(_)
SumParcels(allocs) ==
    IF allocs = <<>> THEN 0 ELSE Head(allocs).parcels + SumParcels(Tail(allocs))

\* (alloc_parcels / cap * 100) if cap > 0 else 0
PageUtilisation(alloc_parcels, cap) ==
    IF cap > 0 THEN <<alloc_parcels, cap>> ELSE <<0, 1>>

\* depot_data[depot.depot_id] after the three loops of the page
depot_data(depot, allocs, date) ==
    LET capacity_rows == {co \in capacity_overrides :
                             co.date = date /\ co.depot_id = depot.depot_id}
        capacity == IF capacity_rows # {}
                    THEN (CHOOSE co \in capacity_rows : TRUE).override_capacity
                    ELSE depot.daily_capacity
        mine == AllocationsAt(allocs, depot.depot_id)
    IN [depot_id |-> depot.depot_id,
        capacity |-> capacity,
        has_override |-> capacity_rows # {},
        allocated_parcels |-> SumParcels(mine),
        trailer_count |-> Len(mine),
        allocations |-> mine,
        utilisation |-> PageUtilisation(SumParcels(mine), capacity)]

\* sorted(..., key = utilisation, reverse = True): descending, entries of
\* equal utilisation in their original order
RECURSIVE InsertByUtilisation(_, _)
InsertByUtilisation(sorted, e) ==
    IF sorted = <<>> THEN <<e>>
    ELSE LET last == sorted[Len(sorted)] IN
         IF last.utilisation[1] * e.utilisation[2]
               >= e.utilisation[1] * last.utilisation[2]
         THEN Append(sorted, e)
         ELSE Append(InsertByUtilisation(SubSeq(sorted, 1, Len(sorted) - 1), e), last)

RECURSIVE SortByUtilisation(_)
SortByUtilisation(entries) ==
    IF entries = <<>> THEN <<>>
    ELSE InsertByUtilisation(SortByUtilisation(SubSeq(entries, 1, Len(entries) - 1)),
                             entries[Len(entries)])

\* depot_summary: the entries of the active depots with allocated parcels
depot_summary(allocs, date) ==
    LET all_depots == SelectSeq(depots, LAMBDA x : x.is_active)
        data == [i \in 1..Len(all_depots) |-> depot_data(all_depots[i], allocs, date)]
    IN SortByUtilisation(SelectSeq(data, LAMBDA d : d.allocated_parcels > 0))

Next ==
    \/ \E d \in Dates : StartRun(d)
    \/ NextVolume
    \/ ProcessTrailer
    \/ BuildSummaries
    \/ Return

Spec == Init /\ [][Next]_vars

----------------------------------------------------------------------------
(* Sanity of the tables of double-precision outcomes *)

\* every halfway case a summary meets is one of the listed ones
TiesListed ==
    \A i \in 1..Len(depot_summaries) :
        LET e == depot_summaries[i] IN
        (e.capacity > 0 /\ 2 * ((e.allocated_parcels * 1000) % e.capacity) = e.capacity)
            => <<e.allocated_parcels, e.capacity>> \in TieRoundsUp \cup TieRoundsDown

----------------------------------------------------------------------------
(* Vocabulary of the properties, read off the stored tables and the output *)

InRun == pc \in {"volume", "trailer", "summary", "done"}

\* the step appends an allocation to the output
Allocates == pc = "trailer" /\ Len(allocations') = Len(allocations) + 1

\* the allocation a step appends
NewAllocation == allocations'[Len(allocations')]

\* the stored depot row with this id
StoredDepot(depot_id) ==
    depots[CHOOSE i \in 1..Len(depots) : depots[i].depot_id = depot_id]

DepotStored(depot_id) == \E i \in 1..Len(depots) : depots[i].depot_id = depot_id

\* daily capacity, or the capacity override of the date when one is stored
EffectiveCapacity(depot_id, date) ==
    IF \E co \in capacity_overrides : co.date = date /\ co.depot_id = depot_id
    THEN (CHOOSE co \in capacity_overrides :
              co.date = date /\ co.depot_id = depot_id).override_capacity
    ELSE StoredDepot(depot_id).daily_capacity

\* the ranking of a collection point, as a set of stored rows
Ranking(cpid) ==
    {cp_depot_distances[i] : i \in {j \in 1..Len(cp_depot_distances) :
                                       cp_depot_distances[j].cpid = cpid}}

\* the stored volume rows of the date being allocated
VolumesOfDate ==
    {daily_volumes[i] : i \in {j \in 1..Len(daily_volumes) :
                                  daily_volumes[j].date = selected_date}}

\* a manual override of the date matches trailer n of volume row v
OverridesFor(v, n) ==
    {o \in manual_overrides :
        /\ o.date = selected_date
        /\ o.cpid = v.cpid
        /\ o.trailer_number = n
        /\ o.collection_time = v.collection_time}

\* the capacity check of a trailer of `parcels` parcels collected at
\* collection_time, against the depot of ranking row r, with the counters
\* as they are in the current state
PassesCheck(r, collection_time, parcels) ==
    /\ DepotStored(r.depot_id)
    /\ StoredDepot(r.depot_id).is_active
    /\ EffectiveCapacity(r.depot_id, selected_date) > 0
    /\ depot_allocated[r.depot_id] + parcels
          <= calculate_available_capacity(
                 StoredDepot(r.depot_id),
                 calculate_arrival_time(collection_time, r.distance_miles),
                 EffectiveCapacity(r.depot_id, selected_date))

\* the ranking row of the depot an allocation names
RowOf(a) == CHOOSE r \in Ranking(a.cpid) : r.depot_id = a.depot_id

----------------------------------------------------------------------------
(* C1: every trailer of a volume row with a matching manual override for the
   date is output with the override's depot and is_override = TRUE, whatever
   depot id the override names.  Stated of a finished call: it ends normally
   and its output holds that allocation. *)
C1_OverrideAlwaysAssigned ==
    pc \in {"done", "error"} =>
        /\ pc = "done"
        /\ \A v \in VolumesOfDate : \A n \in 1..v.trailers :
              \A o \in OverridesFor(v, n) :
                 \E i \in 1..Len(allocations) :
                    /\ allocations[i].cpid = v.cpid
                    /\ allocations[i].trailer_num = n
                    /\ allocations[i].depot_id = o.to_depot_id
                    /\ allocations[i].is_override

(* C2: an allocation that is neither a manual override nor a peak arrival is
   appended only when the parcels already allocated to its depot plus the
   trailer's parcels are at most the depot's available capacity at the
   trailer's arrival time there. *)
C2_AutomaticWithinCapacity ==
    [][ (Allocates /\ ~NewAllocation.is_override /\ ~NewAllocation.is_peak_arrival)
          => depot_allocated[NewAllocation.depot_id] + NewAllocation.parcels
               <= calculate_available_capacity(
                      StoredDepot(NewAllocation.depot_id),
                      calculate_arrival_time(NewAllocation.collection_time,
                                             NewAllocation.distance),
                      EffectiveCapacity(NewAllocation.depot_id, selected_date)) ]_vars

\* an automatic allocation to a depot that already held parcels
C2_Witness ==
    \E i, j \in 1..Len(allocations) :
        /\ j < i
        /\ allocations[j].depot_id = allocations[i].depot_id
        /\ ~allocations[i].is_override
        /\ ~allocations[i].is_peak_arrival

\* the parcels of the allocations of one collection point
RECURSIVE ParcelsOf(_, _)
ParcelsOf(allocs, cpid) ==
    IF allocs = <<>> THEN 0
    ELSE (IF Head(allocs).cpid = cpid THEN Head(allocs).parcels ELSE 0)
           + ParcelsOf(Tail(allocs), cpid)

\* every trailer 1..T of volume row v is in the output
AllTrailersOutput(v) ==
    \A n \in 1..v.trailers :
        \E i \in 1..Len(allocations) :
            allocations[i].cpid = v.cpid /\ allocations[i].trailer_num = n

(* C3: for a volume row of P parcels and T >= 1 trailers, trailer n carries
   floor(P/T) + 1 parcels when n <= P mod T and floor(P/T) otherwise, and
   the trailers 1..T together carry P. *)
C3_ParcelsSumToVolume ==
    \A v \in VolumesOfDate :
        v.trailers >= 1 =>
            /\ \A i \in 1..Len(allocations) :
                  allocations[i].cpid = v.cpid =>
                      allocations[i].parcels =
                          (v.parcels \div v.trailers)
                            + (IF allocations[i].trailer_num <= v.parcels % v.trailers
                               THEN 1 ELSE 0)
            /\ (pc = "done" /\ AllTrailersOutput(v))
                  => ParcelsOf(allocations, v.cpid) = v.parcels

\* a finished call that output all three trailers of a row with a remainder
C3_Witness ==
    /\ pc = "done"
    /\ \E v \in VolumesOfDate :
          v.trailers = 3 /\ v.parcels % 3 = 2 /\ AllTrailersOutput(v)

(* C5: an automatic, non-overflow allocation goes to the first depot in
   ascending rank that passes the capacity check: every depot of lower rank
   in the collection point's ranking was inactive, had effective capacity
   <= 0, or had no room for the trailer when it was processed. *)
C5_FirstFitByRank ==
    [][ (Allocates /\ ~NewAllocation.is_override /\ ~NewAllocation.is_peak_arrival)
          => \A r \in Ranking(NewAllocation.cpid) :
                r.rank < RowOf(NewAllocation).rank
                   => ~PassesCheck(r, NewAllocation.collection_time,
                                   NewAllocation.parcels) ]_vars

\* an automatic allocation beyond rank 1, past a nearer depot with capacity
C5_Witness ==
    \E i \in 1..Len(allocations) :
        /\ ~allocations[i].is_override
        /\ ~allocations[i].is_peak_arrival
        /\ \E r \in Ranking(allocations[i].cpid) :
              /\ r.rank < RowOf(allocations[i]).rank
              /\ EffectiveCapacity(r.depot_id, selected_date) > 0

\* the ranking rows whose depot is active with positive effective capacity
OpenRows(cpid) ==
    {r \in Ranking(cpid) :
        /\ DepotStored(r.depot_id)
        /\ StoredDepot(r.depot_id).is_active
        /\ EffectiveCapacity(r.depot_id, selected_date) > 0}

\* the stored volume row an allocation comes from
VolumeOf(a) == CHOOSE v \in VolumesOfDate : v.cpid = a.cpid

(* C6: an allocation is flagged is_peak_arrival exactly when its trailer has
   no manual override and no ranked depot passed the capacity check; it then
   names the lowest-rank depot of the ranking with effective capacity > 0,
   with no time-window or headroom check. *)
C6_PeakArrivalExactly ==
    [][ Allocates =>
          LET a == NewAllocation IN
          /\ a.is_peak_arrival <=>
                /\ OverridesFor(VolumeOf(a), a.trailer_num) = {}
                /\ \A r \in Ranking(a.cpid) :
                      ~PassesCheck(r, a.collection_time, a.parcels)
          /\ a.is_peak_arrival =>
                /\ RowOf(a) \in OpenRows(a.cpid)
                /\ \A r \in OpenRows(a.cpid) : RowOf(a).rank <= r.rank ]_vars

\* a peak-arrival allocation that takes its depot beyond its whole capacity
C6_Witness ==
    /\ InRun
    /\ \E i \in 1..Len(allocations) :
          /\ allocations[i].is_peak_arrival
          /\ depot_allocated[allocations[i].depot_id]
                > EffectiveCapacity(allocations[i].depot_id, selected_date)

\* the run of the worked example: one volume row CP001 (5000 parcels, 3
\* trailers, 09:00), no manual or capacity override for the date, D001
\* nearest at 10 miles with capacity 2000 and window 08:00-18:00
C4_Scenario ==
    /\ pc = "done"
    /\ VolumesOfDate = {[date |-> selected_date, cpid |-> "CP001", parcels |-> 5000,
                         trailers |-> 3, collection_time |-> T0900]}
    /\ \A o \in manual_overrides : o.date # selected_date
    /\ \A co \in capacity_overrides : co.date # selected_date
    /\ \E r \in Ranking("CP001") :
          r.rank = 1 /\ r.depot_id = "D001" /\ r.distance_miles = 1000
    /\ StoredDepot("D001").daily_capacity = 2000
    /\ StoredDepot("D001").sortation_start_time = T0800
    /\ StoredDepot("D001").cutoff_time = T1800

\* the capacity of D001 available to a 09:00 collection 10 miles away
C4_AvailableAtD001 ==
    calculate_available_capacity(StoredDepot("D001"),
                                 calculate_arrival_time(T0900, 1000), 2000)

\* trailer n of the example is in the output, at D001, by first-fit
C4_FirstFitAtD001(n) ==
    \E i \in 1..Len(allocations) :
        /\ allocations[i].trailer_num = n
        /\ allocations[i].depot_id = "D001"
        /\ ~allocations[i].is_override
        /\ ~allocations[i].is_peak_arrival

(* C4 as stated: in the worked example D001 has its full 2000 available at
   the 10:15 arrival, trailer 1 (1667) is assigned to D001 by first-fit, and
   trailers 2 and 3 are passed on by the scan. *)
C4_AsStated ==
    C4_Scenario =>
        /\ minutes_to_time(calculate_arrival_time(T0900, 1000))
              = <<"1", "0", ":", "1", "5">>
        /\ C4_AvailableAtD001 = 2000
        /\ C4_FirstFitAtD001(1)
        /\ ~C4_FirstFitAtD001(2)
        /\ ~C4_FirstFitAtD001(3)

(* C4 amended: in the worked example the arrival at D001 is 10:15, after the
   08:00 sortation start, so the available capacity is floor(2000 * 465/600)
   = 1550; trailer 1 (1667 > 1550) is passed on by the first-fit scan like
   trailers 2 and 3, and an allocation of the run that names D001 is a
   peak-arrival one. *)
C4_Amended ==
    C4_Scenario =>
        /\ minutes_to_time(calculate_arrival_time(T0900, 1000))
              = <<"1", "0", ":", "1", "5">>
        /\ C4_AvailableAtD001 = 1550
        /\ \A n \in 1..3 : ~C4_FirstFitAtD001(n)
        /\ \A i \in 1..Len(allocations) :
              allocations[i].depot_id = "D001" => allocations[i].is_peak_arrival

\* the worked example has run and output its three trailers
C4_Witness == C4_Scenario /\ Len(allocations) = 3

(* C7: a capacity override of 0 for the date keeps its depot out of every
   non-override allocation of that date's run, first-fit and peak-arrival
   alike; a call uses for each depot the override stored for its own date,
   and the daily capacity when there is none for that date. *)
C7_ZeroOverrideSkipped ==
    /\ \A i \in 1..Len(allocations) :
          ~allocations[i].is_override =>
              ~\E co \in capacity_overrides :
                    /\ co.date = selected_date
                    /\ co.depot_id = allocations[i].depot_id
                    /\ co.override_capacity = 0
    /\ \A d \in DOMAIN depot_base_capacities :
          depot_base_capacities[d] = EffectiveCapacity(d, selected_date)

\* a peak-arrival allocation that went past a nearer depot overridden to 0
C7_Witness ==
    \E i \in 1..Len(allocations) :
        /\ allocations[i].is_peak_arrival
        /\ \E co \in capacity_overrides, r \in Ranking(allocations[i].cpid) :
              /\ co.date = selected_date
              /\ co.override_capacity = 0
              /\ co.depot_id = r.depot_id
              /\ r.rank < RowOf(allocations[i]).rank

(* C8 as stated: no allocation of any run names a depot whose effective
   capacity for the date is zero. *)
C8_AsStated ==
    \A i \in 1..Len(allocations) :
        EffectiveCapacity(allocations[i].depot_id, selected_date) # 0

(* C8 amended: no allocation made without a manual override names a depot
   whose effective capacity for the date is zero. *)
C8_Amended ==
    \A i \in 1..Len(allocations) :
        ~allocations[i].is_override =>
            EffectiveCapacity(allocations[i].depot_id, selected_date) # 0

\* a peak-arrival allocation that went past a nearer depot of capacity zero
C8_Witness ==
    \E i \in 1..Len(allocations) :
        /\ allocations[i].is_peak_arrival
        /\ \E r \in Ranking(allocations[i].cpid) :
              /\ r.rank < RowOf(allocations[i]).rank
              /\ EffectiveCapacity(r.depot_id, selected_date) = 0

(* C9: a volume row with a zero or negative trailer count is allocated as
   one trailer, number 1, carrying all the row's parcels, when some ranked
   depot has positive capacity. *)
C9_NonPositiveTrailersAsOne ==
    pc = "done" =>
        \A v \in VolumesOfDate :
            (v.trailers <= 0 /\ CollectionPointExists(v.cpid) /\ OpenRows(v.cpid) # {})
               => /\ \E i \in 1..Len(allocations) :
                        /\ allocations[i].cpid = v.cpid
                        /\ allocations[i].trailer_num = 1
                        /\ allocations[i].parcels = v.parcels
                  /\ \A i, j \in 1..Len(allocations) :
                        (allocations[i].cpid = v.cpid /\ allocations[j].cpid = v.cpid)
                           => i = j

(* C10: a call on the same stored data as an earlier call for the same date
   ends the same way and, when it returns, returns the same allocation list
   and the same depot summaries. *)
C10_Deterministic ==
    (pc \in {"done", "error"} /\ returned[selected_date].status # "none") =>
        /\ (pc = "done") <=> (returned[selected_date].status = "ok")
        /\ pc = "done" =>
              /\ allocations = returned[selected_date].allocations
              /\ depot_summaries = returned[selected_date].depot_summaries

\* a second call for a date has finished with several allocations
C10_Witness ==
    /\ pc = "done"
    /\ returned[selected_date].status = "ok"
    /\ Len(allocations) >= 2
    /\ depot_summaries # <<>>

----------------------------------------------------------------------------
(* calculate_available_capacity called on its own, over depots with regular,
   absent, reversed, empty and short sortation windows *)

ProbeWindows ==
    {<<T0800, T1800>>, <<(<<>>), (<<>>)>>, <<T1800, T0800>>, <<T0900, T0900>>,
     <<T0800, <<"1", "2", ":", "0", "0">> >>}

ProbeDepots ==
    {[depot_id |-> "D001", daily_capacity |-> 2000,
      sortation_start_time |-> w[1], cutoff_time |-> w[2], is_active |-> TRUE] :
        w \in ProbeWindows}

ProbeCollectionTimes ==
    {<<"0", "6", ":", "0", "0">>, T0700, T0900, <<"1", "2", ":", "0", "0">>,
     <<"1", "7", ":", "0", "0">>, T1800}

ProbeDistances == {0, 500, 1000, 2000, 3000, 8800}

ProbeCapacities == {2000, 3000, 5000}

\* the arrival of a collection at collection_time over distance_miles, then the
\* capacity of depot available at that arrival
CallAvailableCapacity ==
    \E depot \in ProbeDepots, collection_time \in ProbeCollectionTimes,
       distance_miles \in ProbeDistances, base_capacity \in ProbeCapacities :
        LET arrival_mins == calculate_arrival_time(collection_time, distance_miles) IN
        /\ probe = NoProbe
        /\ probe' = [fn |-> "calculate_available_capacity",
                     args |-> <<depot, arrival_mins, base_capacity>>,
                     result |-> calculate_available_capacity(depot, arrival_mins,
                                                             base_capacity)]
        /\ UNCHANGED <<db_vars, web_vars, run_vars, returned>>

NextCapacity == CallAvailableCapacity

\* empty volume and override tables, no call of get_allocations under way
InitCapacity ==
    /\ Init
    /\ daily_volumes = <<>>
    /\ manual_overrides = {}
    /\ capacity_overrides = {}

SpecCapacity == InitCapacity /\ [][NextCapacity]_vars

\* the capacity model: all of C up to the sortation start, nothing from the
\* cutoff on, in between the whole part of C * (cutoff - t) / (cutoff - start)
ReferenceCapacity(depot, t, C) ==
    LET start == 200 * time_to_minutes(OrDefault(depot.sortation_start_time, T0800))
        cutoff == 200 * time_to_minutes(OrDefault(depot.cutoff_time, T1800))
    IN IF t <= start THEN C
       ELSE IF t >= cutoff THEN 0
       ELSE (C * (cutoff - t)) \div (cutoff - start)

(* C11: calculate_available_capacity(depot, t, C) is C for t <= start, 0 for
   t >= cutoff, and floor(C * (cutoff - t) / (cutoff - start)) in between; with
   cutoff <= start it is 0 for every t > start. *)
C11_MatchesReference ==
    probe.fn = "calculate_available_capacity" =>
        LET depot == probe.args[1]
            t == probe.args[2]
            C == probe.args[3]
            start == 200 * time_to_minutes(OrDefault(depot.sortation_start_time, T0800))
            cutoff == 200 * time_to_minutes(OrDefault(depot.cutoff_time, T1800))
        IN /\ probe.result = ReferenceCapacity(depot, t, C)
           /\ (cutoff <= start /\ t > start) => probe.result = 0

\* the same, allowing the result to fall one short of the floor
C11_WithinOne ==
    probe.fn = "calculate_available_capacity" =>
        LET ref == ReferenceCapacity(probe.args[1], probe.args[2], probe.args[3])
        IN probe.result \in {ref, ref - 1}

----------------------------------------------------------------------------
\* the collection time of an allocation, in minutes since midnight
MinutesOf(a) == time_to_minutes(a.collection_time)

\* the place of the date's row of a collection point in the stored table
StoredPosition(cpid) ==
    CHOOSE i \in 1..Len(daily_volumes) :
        daily_volumes[i].date = selected_date /\ daily_volumes[i].cpid = cpid

\* allocation a was made before b in the order of the claim: earlier
\* collection time, then earlier stored row, then lower trailer number
Precedes(a, b) ==
    \/ MinutesOf(a) < MinutesOf(b)
    \/ /\ MinutesOf(a) = MinutesOf(b)
       /\ \/ StoredPosition(a.cpid) < StoredPosition(b.cpid)
          \/ a.cpid = b.cpid /\ a.trailer_num < b.trailer_num

(* C12: volume rows are processed in ascending collection time, rows of equal
   collection time in stored order, the trailers of a row in ascending number;
   the output list is in this order, and every row still to be processed is
   collected no earlier than every trailer already allocated. *)
C12_ProcessingOrder ==
    InRun =>
        /\ \A i, j \in 1..Len(allocations) :
              i < j => Precedes(allocations[i], allocations[j])
        /\ \A k \in 1..Len(volumes_sorted), i \in 1..Len(allocations) :
              (k >= vi /\ allocations[i].cpid # volumes_sorted[k].cpid) =>
                 \/ MinutesOf(allocations[i]) < SortKey(volumes_sorted[k])
                 \/ /\ MinutesOf(allocations[i]) = SortKey(volumes_sorted[k])
                    /\ StoredPosition(allocations[i].cpid)
                          < StoredPosition(volumes_sorted[k].cpid)
        /\ (pc = "trailer") =>
              \A i \in 1..Len(allocations) :
                 allocations[i].cpid = volumes_sorted[vi].cpid
                    => allocations[i].trailer_num < trailer_num

\* a finished call whose output starts with a row stored after, but collected
\* before, the row of a later allocation
C12_Witness ==
    /\ pc = "done"
    /\ \E i, j \in 1..Len(allocations) :
          /\ i < j
          /\ MinutesOf(allocations[i]) < MinutesOf(allocations[j])
          /\ StoredPosition(allocations[i].cpid) > StoredPosition(allocations[j].cpid)

----------------------------------------------------------------------------
\* the places in the output of trailer n of the collection point cpid
PlacesOf(cpid, n) ==
    {i \in 1..Len(allocations) :
        allocations[i].cpid = cpid /\ allocations[i].trailer_num = n}

(* C13: in the output of a call that returns, a trailer of a known collection
   point with no matching manual override is missing exactly when no depot of
   the collection point's ranking is active with effective capacity > 0;
   every other trailer 1..T of a row is in the output exactly once. *)
C13_DroppedExactlyWhenNoOpenDepot ==
    pc = "done" =>
        \A v \in VolumesOfDate :
            CollectionPointExists(v.cpid) =>
                \A n \in 1..v.trailers :
                    /\ Cardinality(PlacesOf(v.cpid, n)) <= 1
                    /\ (OverridesFor(v, n) = {}) =>
                          ((PlacesOf(v.cpid, n) = {}) <=> (OpenRows(v.cpid) = {}))
                    /\ (OverridesFor(v, n) # {}) => PlacesOf(v.cpid, n) # {}

\* a finished call that dropped a whole row: its collection point has a
\* ranking, but every ranked depot has capacity 0 for the date
C13_Witness ==
    /\ pc = "done"
    /\ \E v \in VolumesOfDate :
          /\ CollectionPointExists(v.cpid)
          /\ v.trailers >= 1
          /\ Ranking(v.cpid) # {}
          /\ OpenRows(v.cpid) = {}
          /\ \A n \in 1..v.trailers : PlacesOf(v.cpid, n) = {}

----------------------------------------------------------------------------
\* the parcels the first k allocations of the output send to a depot,
\* manual overrides included
RECURSIVE ParcelsTo(_, _)
ParcelsTo(k, depot_id) ==
    IF k = 0 THEN 0
    ELSE (IF allocations[k].depot_id = depot_id THEN allocations[k].parcels ELSE 0)
           + ParcelsTo(k - 1, depot_id)

(* C14: the parcels of a trailer assigned through a manual override are added
   to the counter of its depot, so the counter of a depot is the total of all
   its allocations, and an automatic allocation is made only when everything
   allocated to the depot before it, overrides included, plus the trailer's
   parcels is within the available capacity. *)
C14_OverridesAreCounted ==
    InRun =>
        /\ \A d \in DOMAIN depot_allocated :
              depot_allocated[d] = ParcelsTo(Len(allocations), d)
        /\ \A i \in 1..Len(allocations) :
              LET a == allocations[i] IN
              (~a.is_override /\ ~a.is_peak_arrival) =>
                  ParcelsTo(i - 1, a.depot_id) + a.parcels
                     <= calculate_available_capacity(
                            StoredDepot(a.depot_id),
                            calculate_arrival_time(a.collection_time, a.distance),
                            EffectiveCapacity(a.depot_id, selected_date))

\* the capacity of the depot of ranking row r available to allocation a
AvailableTo(a, r) ==
    calculate_available_capacity(
        StoredDepot(r.depot_id),
        calculate_arrival_time(a.collection_time, r.distance_miles),
        EffectiveCapacity(r.depot_id, selected_date))

\* an overridden trailer at a depot, and a later trailer that went past that
\* depot only because of the override's parcels: without them it had fitted
C14_Witness ==
    /\ InRun
    /\ \E j, k \in 1..Len(allocations) :
          /\ j < k
          /\ allocations[j].is_override
          /\ ~allocations[k].is_override
          /\ \E r \in Ranking(allocations[k].cpid) :
                /\ r.depot_id = allocations[j].depot_id
                /\ r.rank < RowOf(allocations[k]).rank
                /\ EffectiveCapacity(r.depot_id, selected_date) > 0
                /\ ParcelsTo(k - 1, r.depot_id) + allocations[k].parcels
                      > AvailableTo(allocations[k], r)
                /\ ParcelsTo(k - 1, r.depot_id) - allocations[j].parcels
                      + allocations[k].parcels <= AvailableTo(allocations[k], r)

----------------------------------------------------------------------------
\* the depots with an entry in the summary get_allocations returns
SummaryDepots == {depot_summaries[i].depot_id : i \in 1..Len(depot_summaries)}

\* the depots with an entry in the summary of the depot allocations page
PageDepots ==
    LET page == depot_summary(allocations, selected_date)
    IN {page[i].depot_id : i \in 1..Len(page)}

\* the depots named by at least one allocation of the output
AllocatedDepots == {allocations[i].depot_id : i \in 1..Len(allocations)}

StoredDepotIds == {depots[i].depot_id : i \in 1..Len(depots)}

(* C15 as stated: a depot has an entry in the summary exactly when the output
   has at least one allocation assigned to it. *)
C15_AsStated ==
    pc = "done" =>
        /\ SummaryDepots = AllocatedDepots
        /\ PageDepots = AllocatedDepots

(* C15 amended: a depot has an entry in the summary exactly when the parcels
   of the output's allocations to it add up to a total other than zero (for
   the page: above zero), and it has one entry at most; a depot that was sent
   only trailers of zero parcels has allocations and no entry. *)
C15_Amended ==
    pc = "done" =>
        /\ SummaryDepots =
              {d \in StoredDepotIds : ParcelsTo(Len(allocations), d) # 0}
        /\ PageDepots =
              {d \in StoredDepotIds : ParcelsTo(Len(allocations), d) > 0}
        /\ SummaryDepots \subseteq AllocatedDepots
        /\ Cardinality(SummaryDepots) = Len(depot_summaries)
        /\ Cardinality(PageDepots) = Len(depot_summary(allocations, selected_date))

\* a finished call with a depot in the summary and another depot whose only
\* trailer carries no parcels
C15_Witness ==
    /\ pc = "done"
    /\ SummaryDepots # {}
    /\ \E i \in 1..Len(allocations) :
          /\ allocations[i].parcels = 0
          /\ allocations[i].depot_id \notin SummaryDepots

----------------------------------------------------------------------------
\* |x|
Abs(x) == IF x >= 0 THEN x ELSE -x

\* the entries of both summaries carry the depot's parcel total and its
\* effective capacity for the date
SummaryFieldsRight ==
    /\ \A i \in 1..Len(depot_summaries) :
          LET e == depot_summaries[i] IN
          /\ e.allocated_parcels = ParcelsTo(Len(allocations), e.depot_id)
          /\ e.capacity = EffectiveCapacity(e.depot_id, selected_date)
    /\ LET page == depot_summary(allocations, selected_date) IN
       \A i \in 1..Len(page) :
          /\ page[i].allocated_parcels = ParcelsTo(Len(allocations), page[i].depot_id)
          /\ page[i].capacity = EffectiveCapacity(page[i].depot_id, selected_date)

\* the page's utilisation is allocated_parcels / capacity * 100, and 0 for a
\* capacity of 0
PageUtilisationExact ==
    LET page == depot_summary(allocations, selected_date) IN
    \A i \in 1..Len(page) :
        LET e == page[i] IN
        IF e.capacity > 0
        THEN e.utilisation[1] * e.capacity = e.allocated_parcels * e.utilisation[2]
        ELSE e.utilisation[1] = 0

(* C16 as stated: in both summaries utilisation is allocated_parcels /
   effective capacity * 100, and 0 when the effective capacity is 0. *)
C16_AsStated ==
    pc = "done" =>
        /\ SummaryFieldsRight
        /\ PageUtilisationExact
        /\ \A i \in 1..Len(depot_summaries) :
              LET e == depot_summaries[i] IN
              IF e.capacity > 0
              THEN e.utilisation * e.capacity = e.allocated_parcels * 1000
              ELSE e.utilisation = 0

(* C16 amended: the page's utilisation is allocated_parcels / effective
   capacity * 100; the utilisation in the summary of get_allocations is that
   percentage rounded to one decimal place, so it is off by at most 0.05;
   both are 0 when the effective capacity is 0. *)
C16_Amended ==
    pc = "done" =>
        /\ SummaryFieldsRight
        /\ PageUtilisationExact
        /\ \A i \in 1..Len(depot_summaries) :
              LET e == depot_summaries[i] IN
              IF e.capacity > 0
              THEN 2 * Abs(e.utilisation * e.capacity - e.allocated_parcels * 1000)
                      <= e.capacity
              ELSE e.utilisation = 0

\* a finished call whose summary has a depot of capacity 0 and a depot whose
\* percentage does not end at the first decimal
C16_Witness ==
    /\ pc = "done"
    /\ \E i, j \in 1..Len(depot_summaries) :
          /\ depot_summaries[i].capacity = 0
          /\ depot_summaries[i].utilisation = 0
          /\ depot_summaries[j].capacity > 0
          /\ depot_summaries[j].utilisation * depot_summaries[j].capacity
                > depot_summaries[j].allocated_parcels * 1000

----------------------------------------------------------------------------
(* The distance index: import_collection_points, import_depots and
   calculate_distances of app/import_data.py, add_collection_point of
   app/main.py.  Coordinates are in 1/100000 degree.  haversine_miles is the
   table of the doubles the function returns for the coordinates used here,
   in 1/10000 mile, which keeps their order and their equalities. *)

MaxDepots == 3
MaxCollectionPoints == 2

\* depot rows of an import file: D001 and D002 at the same place, D003 40
\* millionths of a degree north of them, D004 elsewhere
DepotFileRows ==
    {[depot_id |-> "D001", latitude |-> 5210000, longitude |-> -100000,
      daily_capacity |-> 2000, is_active |-> TRUE],
     [depot_id |-> "D002", latitude |-> 5210000, longitude |-> -100000,
      daily_capacity |-> 3000, is_active |-> TRUE],
     [depot_id |-> "D003", latitude |-> 5210004, longitude |-> -100000,
      daily_capacity |-> 0, is_active |-> TRUE],
     [depot_id |-> "D004", latitude |-> 5230000, longitude |-> -120000,
      daily_capacity |-> 2000, is_active |-> TRUE]}

CollectionPointFileRows ==
    {[cpid |-> "CP001", latitude |-> 5200000, longitude |-> -100000],
     [cpid |-> "CP002", latitude |-> 5300000, longitude |-> -200000]}

HaversineTable ==
    {<< <<5200000, -100000, 5210000, -100000>>, 69098>>,
     << <<5200000, -100000, 5210004, -100000>>, 69125>>,
     << <<5200000, -100000, 5230000, -120000>>, 223966>>,
     << <<5300000, -200000, 5210000, -100000>>, 750495>>,
     << <<5300000, -200000, 5210004, -100000>>, 750472>>,
     << <<5300000, -200000, 5230000, -120000>>, 588564>>}

haversine_miles(lat1, lon1, lat2, lon2) ==
    (CHOOSE e \in HaversineTable : e[1] = <<lat1, lon1, lat2, lon2>>)[2]

\* round(dist, 2), in hundredths of a mile (no distance of the table is a tie)
RoundToHundredths(dist) == (dist + 50) \div 100

\* the files read by the two imports: one or two rows
FilesOf(rows) == {<<r>> : r \in rows} \cup {<<r, q>> : r \in rows, q \in rows}

\* mutant: a depot is put before the depots at the same distance
RECURSIVE InsertByDistanceBeforeEqual(_, _)
InsertByDistanceBeforeEqual(sorted, e) ==
    IF sorted = <<>> THEN <<e>>
    ELSE IF sorted[Len(sorted)][2] < e[2] THEN Append(sorted, e)
    ELSE Append(InsertByDistanceBeforeEqual(SubSeq(sorted, 1, Len(sorted) - 1), e),
                sorted[Len(sorted)])

\* distances.sort(key=lambda x: x[1]), a stable sort of (depot_id, dist)
RECURSIVE InsertByDistance(_, _)
InsertByDistance(sorted, e) ==
    IF sorted = <<>> THEN <<e>>
    ELSE IF sorted[Len(sorted)][2] <= e[2] THEN Append(sorted, e)
    ELSE Append(InsertByDistance(SubSeq(sorted, 1, Len(sorted) - 1), e),
                sorted[Len(sorted)])

RECURSIVE SortByDistance(_)
SortByDistance(pairs) ==
    IF pairs = <<>> THEN <<>>
    ELSE InsertByDistance(SortByDistance(SubSeq(pairs, 1, Len(pairs) - 1)),
                          pairs[Len(pairs)])

\* the CPDepotDistance rows written for one collection point: every stored
\* depot, nearest first, ranks counted from 1
RankedRows(cpid, latitude, longitude, all_depots) ==
    LET pairs == [i \in 1..Len(all_depots) |->
                    <<all_depots[i].depot_id,
                      haversine_miles(latitude, longitude,
                                      all_depots[i].latitude, all_depots[i].longitude)>>]
        sorted == SortByDistance(pairs)
    IN [rank \in 1..Len(sorted) |->
           [cpid |-> cpid, depot_id |-> sorted[rank][1],
            distance_miles |-> RoundToHundredths(sorted[rank][2]), rank |-> rank]]

RECURSIVE AppendNewDepots(_, _)
AppendNewDepots(table, file) ==
    IF file = <<>> THEN table
    ELSE LET row == Head(file)
             existing == \E i \in 1..Len(table) : table[i].depot_id = row.depot_id
         IN AppendNewDepots(IF existing THEN table ELSE Append(table, row), Tail(file))

RECURSIVE AppendNewCollectionPoints(_, _)
AppendNewCollectionPoints(table, file) ==
    IF file = <<>> THEN table
    ELSE LET row == Head(file)
             existing == \E i \in 1..Len(table) : table[i].cpid = row.cpid
         IN AppendNewCollectionPoints(IF existing THEN table ELSE Append(table, row),
                                      Tail(file))

RECURSIVE RowsOfAll(_, _)
RowsOfAll(cps, all_depots) ==
    IF cps = <<>> THEN <<>>
    ELSE RankedRows(Head(cps).cpid, Head(cps).latitude, Head(cps).longitude, all_depots)
            \o RowsOfAll(Tail(cps), all_depots)

other_vars == <<daily_volumes, manual_overrides, capacity_overrides,
                run_vars, returned, probe, web_vars>>

\* import_depots: the rows of the file whose DepotID is not stored yet
import_depots(file) ==
    /\ Len(AppendNewDepots(depots, file)) <= MaxDepots
    /\ depots' = AppendNewDepots(depots, file)
    /\ UNCHANGED <<collection_points, cp_depot_distances, other_vars>>

\* import_collection_points: the rows of the file whose CPID is not stored yet
import_collection_points(file) ==
    /\ Len(AppendNewCollectionPoints(collection_points, file)) <= MaxCollectionPoints
    /\ collection_points' = AppendNewCollectionPoints(collection_points, file)
    /\ UNCHANGED <<depots, cp_depot_distances, other_vars>>

\* mutant: the rows are computed and added whatever is stored
calculate_distances_unconditional ==
    /\ cp_depot_distances' = cp_depot_distances \o RowsOfAll(collection_points, depots)
    /\ UNCHANGED <<collection_points, depots, other_vars>>

\* calculate_distances: nothing when any distance row is stored, else the
\* rows of every collection point
calculate_distances ==
    /\ cp_depot_distances' =
          IF Len(cp_depot_distances) > 0 THEN cp_depot_distances
          ELSE RowsOfAll(collection_points, depots)
    /\ UNCHANGED <<collection_points, depots, other_vars>>

\* mutant: the distance rows are written for a stored CPID too
add_collection_point_unchecked(cp) ==
    /\ Len(AppendNewCollectionPoints(collection_points, <<cp>>)) <= MaxCollectionPoints
    /\ collection_points' = AppendNewCollectionPoints(collection_points, <<cp>>)
    /\ cp_depot_distances' =
          cp_depot_distances \o RankedRows(cp.cpid, cp.latitude, cp.longitude, depots)
    /\ UNCHANGED <<depots, other_vars>>

\* add_collection_point: refused for a stored CPID, else the collection point
\* and its distance rows to every stored depot
add_collection_point(cp) ==
    /\ Len(AppendNewCollectionPoints(collection_points, <<cp>>)) <= MaxCollectionPoints
    /\ IF \E i \in 1..Len(collection_points) : collection_points[i].cpid = cp.cpid
       THEN UNCHANGED <<collection_points, cp_depot_distances>>
       ELSE /\ collection_points' = Append(collection_points, cp)
            /\ cp_depot_distances' =
                  cp_depot_distances
                     \o RankedRows(cp.cpid, cp.latitude, cp.longitude, depots)
    /\ UNCHANGED <<depots, other_vars>>

\* the empty tables of a fresh database
InitDistances ==
    /\ daily_volumes = <<>>
    /\ manual_overrides = {}
    /\ capacity_overrides = {}
    /\ depots = <<>>
    /\ collection_points = <<>>
    /\ cp_depot_distances = <<>>
    /\ pc = "idle"
    /\ selected_date = 0
    /\ volumes_sorted = <<>>
    /\ override_map = <<>>
    /\ depot_map = <<>>
    /\ depot_base_capacities = <<>>
    /\ depot_allocated = <<>>
    /\ allocations = <<>>
    /\ vi = 0
    /\ trailer_num = 0
    /\ distances = <<>>
    /\ depot_summaries = <<>>
    /\ at_start = <<>>
    /\ returned = [d \in Dates |-> NotReturned]
    /\ probe = NoProbe
    /\ NoRequests

NextDistances ==
    \/ \E file \in FilesOf(DepotFileRows) : import_depots(file)
    \/ \E file \in FilesOf(CollectionPointFileRows) : import_collection_points(file)
    \/ calculate_distances
    \/ \E cp \in CollectionPointFileRows : add_collection_point(cp)

SpecDistances == InitDistances /\ [][NextDistances]_vars

\* the stored distance rows of a collection point, as a set
RowsFor(cpid) ==
    {cp_depot_distances[i] : i \in {j \in 1..Len(cp_depot_distances) :
                                       cp_depot_distances[j].cpid = cpid}}

\* how many distance rows a collection point has
RowCount(cpid) ==
    Cardinality({j \in 1..Len(cp_depot_distances) : cp_depot_distances[j].cpid = cpid})

\* the place of a depot in the depot table, the order its rows are read in
DepotPosition(depot_id) ==
    CHOOSE i \in 1..Len(depots) : depots[i].depot_id = depot_id

\* the distance haversine_miles computes between a stored collection point
\* and a stored depot
ComputedDistance(cpid, depot_id) ==
    LET cp == collection_points[CHOOSE i \in 1..Len(collection_points) :
                                   collection_points[i].cpid = cpid]
        depot == depots[DepotPosition(depot_id)]
    IN haversine_miles(cp.latitude, cp.longitude, depot.latitude, depot.longitude)

(* C17: for every collection point with distance rows the ranks are exactly
   1..N, each once; the stored distance does not decrease with the rank; and
   of two depots at equal computed distance the one read first from the
   depot table has the lower rank. *)
C17_RanksContiguousAndStable ==
    \A cpid \in {cp_depot_distances[i].cpid : i \in 1..Len(cp_depot_distances)} :
        /\ {r.rank : r \in RowsFor(cpid)} = 1..RowCount(cpid)
        /\ \A r, q \in RowsFor(cpid) :
              /\ (r.rank = q.rank) => (r = q)
              /\ (r.rank < q.rank) => (r.distance_miles <= q.distance_miles)
              /\ (/\ ComputedDistance(cpid, r.depot_id) = ComputedDistance(cpid, q.depot_id)
                  /\ DepotPosition(r.depot_id) < DepotPosition(q.depot_id))
                    => r.rank < q.rank

\* a collection point ranked to three depots, two of them at the same place
\* and read in the order D002, D001
C17_Witness ==
    \E cpid \in {cp_depot_distances[i].cpid : i \in 1..Len(cp_depot_distances)} :
        /\ RowCount(cpid) = 3
        /\ \E r, q \in RowsFor(cpid) :
              /\ r.depot_id = "D002" /\ q.depot_id = "D001"
              /\ DepotPosition("D002") < DepotPosition("D001")
              /\ ComputedDistance(cpid, "D002") = ComputedDistance(cpid, "D001")
              /\ r.rank < q.rank

----------------------------------------------------------------------------
(* Volume rows of a collection point that is no longer stored.  load_data.py
   deletes the collection points, depots and distances and loads them anew,
   and leaves the volume and override tables alone: rows of CP009, which the
   new files do not list, stay behind.  Date 1 has such a row beside a row of
   CP001; date 2 has the same row of CP001 and nothing else. *)

\* a stored table in any row order
Orderings(rows) ==
    {t \in [1..Cardinality(rows) -> rows] : \A i, j \in 1..Cardinality(rows) :
                                                i # j => t[i] # t[j]}

LeftoverTables ==
    UNION {Orderings({[date |-> 1, cpid |-> "CP009", parcels |-> u[1],
                       trailers |-> u[2], collection_time |-> u[3]],
                      [date |-> 1, cpid |-> "CP001", parcels |-> k[1],
                       trailers |-> k[2], collection_time |-> k[3]],
                      [date |-> 2, cpid |-> "CP001", parcels |-> k[1],
                       trailers |-> k[2], collection_time |-> k[3]]}) :
              u \in {<<5000, 3, T0700>>, <<7, 2, T0900>>},
              k \in {<<5000, 3, T0900>>, <<7, 2, T0700>>}}

\* no override, an override left for trailer 1 of CP009, or the same override
\* of trailer 1 of CP001 on both dates
LeftoverOverrideTables ==
    {{}}
    \cup {{[date |-> 1, cpid |-> "CP009", trailer_number |-> 1,
            collection_time |-> t, to_depot_id |-> "D001"]} : t \in {T0700, T0900}}
    \cup {{[date |-> d, cpid |-> "CP001", trailer_number |-> 1,
            collection_time |-> t, to_depot_id |-> "D003"] : d \in Dates} :
              t \in {T0700, T0900}}

LeftoverCapacityOverrideTables ==
    {{}, {[date |-> d, depot_id |-> "D001", override_capacity |-> 0] : d \in Dates}}

InitUnknownCp ==
    /\ daily_volumes \in LeftoverTables
    /\ manual_overrides \in LeftoverOverrideTables
    /\ capacity_overrides \in LeftoverCapacityOverrideTables
    /\ depots = DepotRows
    /\ collection_points = CollectionPointRows
    /\ cp_depot_distances = DistanceRows
    /\ pc = "idle"
    /\ selected_date = 0
    /\ volumes_sorted = <<>>
    /\ override_map = <<>>
    /\ depot_map = <<>>
    /\ depot_base_capacities = <<>>
    /\ depot_allocated = <<>>
    /\ allocations = <<>>
    /\ vi = 0
    /\ trailer_num = 0
    /\ distances = <<>>
    /\ depot_summaries = <<>>
    /\ at_start = <<>>
    /\ returned = [d \in Dates |-> NotReturned]
    /\ probe = NoProbe
    /\ NoRequests

SpecUnknownCp == InitUnknownCp /\ [][Next]_vars

\* a stored row without its date
Undated(v) ==
    [cpid |-> v.cpid, parcels |-> v.parcels, trailers |-> v.trailers,
     collection_time |-> v.collection_time]

\* the volume rows of a date whose collection point is stored, in table
\* order, without the date
KnownVolumes(date) ==
    LET rows == SelectSeq(daily_volumes,
                    LAMBDA v : v.date = date /\ \E i \in 1..Len(collection_points) :
                                                    collection_points[i].cpid = v.cpid)
    IN [i \in 1..Len(rows) |-> Undated(rows[i])]

\* the manual overrides of a date for stored collection points, and its
\* capacity overrides, without the date
KnownOverrides(date) ==
    {<<o.cpid, o.trailer_number, o.collection_time, o.to_depot_id>> :
        o \in {x \in manual_overrides :
                  x.date = date /\ \E i \in 1..Len(collection_points) :
                                      collection_points[i].cpid = x.cpid}}

CapacityOverridesOf(date) ==
    {<<co.depot_id, co.override_capacity>> :
        co \in {x \in capacity_overrides : x.date = date}}

\* the date has a volume row of a collection point that is not stored
HasUnknownRow(date) ==
    \E i \in 1..Len(daily_volumes) :
        /\ daily_volumes[i].date = date
        /\ \A j \in 1..Len(collection_points) :
              collection_points[j].cpid # daily_volumes[i].cpid

\* the step passes over a volume row whose collection point is not stored
SkipsUnknown ==
    /\ pc = "volume"
    /\ \A j \in 1..Len(collection_points) :
          collection_points[j].cpid # volumes_sorted[vi].cpid

\* the output of a finished call is the output returned for another date
\* whose rows are the same but for rows of unknown collection points
SameAsWithoutUnknownRows ==
    pc = "done" =>
        /\ \A i \in 1..Len(allocations) :
              \E j \in 1..Len(collection_points) :
                  collection_points[j].cpid = allocations[i].cpid
        /\ \A e \in Dates :
              (/\ returned[e].status # "none"
               /\ KnownVolumes(e) = KnownVolumes(selected_date)
               /\ KnownOverrides(e) = KnownOverrides(selected_date)
               /\ CapacityOverridesOf(e) = CapacityOverridesOf(selected_date))
                 => /\ returned[e].status = "ok"
                    /\ returned[e].allocations = allocations
                    /\ returned[e].depot_summaries = depot_summaries

(* C18: a volume row whose collection point is not stored is passed over:
   the step raises no error, appends no allocation and changes no counter,
   and the call returns what a call returns on the same rows without the
   rows of unknown collection points. *)
C18_UnknownRowSkipped ==
    /\ []SameAsWithoutUnknownRows
    /\ [][SkipsUnknown => /\ allocations' = allocations
                          /\ depot_allocated' = depot_allocated
                          /\ pc' \in {"volume", "summary"}
                          /\ vi' = vi + 1]_vars

\* a finished call for the date with the unknown row, after a call for the
\* date without it: the unknown row has an override and is collected first,
\* and the row of CP001 is allocated
C18_Witness ==
    /\ pc = "done"
    /\ HasUnknownRow(selected_date)
    /\ allocations # <<>>
    /\ volumes_sorted[1].cpid = "CP009"
    /\ \E o \in manual_overrides :
          o.cpid = "CP009" /\ o.collection_time = volumes_sorted[1].collection_time
    /\ \E e \in Dates :
          /\ ~HasUnknownRow(e)
          /\ returned[e].status = "ok"
          /\ returned[e].allocations = allocations

----------------------------------------------------------------------------
\* the fee schedule, in thousandths of a pound (the rate per hundredth of a mile)
base_fee == 150000
per_mile_rate == 18
minimum_fee == 200000

(* C19: the cost of every allocation is max(minimum_fee, base_fee +
   per_mile_rate * distance) for the allocation's distance, which is the
   stored distance from the collection point to the assigned depot; so no
   cost is below the minimum fee, and of two allocations the one with the
   longer distance costs no less. *)
C19_CostFormula ==
    /\ \A i \in 1..Len(allocations) :
          LET a == allocations[i]
              fee == base_fee + per_mile_rate * a.distance
          IN /\ a.cost = (IF fee > minimum_fee THEN fee ELSE minimum_fee)
             /\ a.cost >= minimum_fee
             /\ \A r \in Ranking(a.cpid) :
                   r.depot_id = a.depot_id => a.distance = r.distance_miles
    /\ \A i, j \in 1..Len(allocations) :
          allocations[i].distance <= allocations[j].distance
             => allocations[i].cost <= allocations[j].cost

\* an output with a trailer at the minimum fee, over a distance whose mileage
\* fee is below it, and a trailer that costs more than the minimum
C19_Witness ==
    \E i, j \in 1..Len(allocations) :
        /\ allocations[i].distance > 0
        /\ base_fee + per_mile_rate * allocations[i].distance < minimum_fee
        /\ allocations[i].cost = minimum_fee
        /\ allocations[j].cost > minimum_fee

----------------------------------------------------------------------------
\* the step is the start of a call that goes on to allocate
StartsRun == pc = "idle" /\ pc' \in {"volume", "error"}

(* C20: no step of a call of get_allocations changes a stored table, and a
   call starts with an empty allocation list and with the counter of every
   active depot at zero, whatever the locals of the call before held. *)
C20_RunsAreIsolated ==
    [][ /\ db_vars' = db_vars
        /\ StartsRun =>
              /\ allocations' = <<>>
              /\ depot_summaries' = <<>>
              /\ DOMAIN depot_allocated' =
                    {depots[i].depot_id : i \in {j \in 1..Len(depots) : depots[j].is_active}}
              /\ \A d \in DOMAIN depot_allocated' : depot_allocated'[d] = 0 ]_vars

\* a call has just started after an earlier call that allocated parcels: the
\* counters are at zero and the tables are the ones the earlier call read
C20_Witness ==
    /\ pc = "volume"
    /\ vi = 1
    /\ allocations = <<>>
    /\ \A d \in DOMAIN depot_allocated : depot_allocated[d] = 0
    /\ \E e \in Dates :
          /\ returned[e].status = "ok"
          /\ Len(returned[e].allocations) >= 2
          /\ returned[e].depot_summaries # <<>>

----------------------------------------------------------------------------
(* A call of get_allocations with other requests going on: while the call is
   between two of its queries add_collection_point adds a collection point
   with its distance rows, or calculate_distances fills the empty distance
   table.  Every query of the call sees the rows committed so far.  Date 1
   has a volume row of CP001 and one of CP002; CP002 is not stored yet. *)

RunningDepotRows == <<
    [depot_id |-> "D001", latitude |-> 5210000, longitude |-> -100000,
     daily_capacity |-> 2000,
     sortation_start_time |-> T0800, cutoff_time |-> T1800, is_active |-> TRUE],
    [depot_id |-> "D004", latitude |-> 5230000, longitude |-> -120000,
     daily_capacity |-> 2000,
     sortation_start_time |-> T0800, cutoff_time |-> T1800, is_active |-> TRUE] >>

RunningCollectionPointRows ==
    <<[cpid |-> "CP001", latitude |-> 5200000, longitude |-> -100000]>>

RunningVolumeTables ==
    UNION {Orderings({[date |-> 1, cpid |-> "CP001", parcels |-> k[1],
                       trailers |-> k[2], collection_time |-> k[3]],
                      [date |-> 1, cpid |-> "CP002", parcels |-> u[1],
                       trailers |-> u[2], collection_time |-> u[3]]}) :
              k \in {<<5000, 3, T0900>>, <<7, 2, T0700>>},
              u \in {<<5000, 3, T0700>>, <<7, 2, T0900>>}}

InitWhileRunning ==
    /\ daily_volumes \in RunningVolumeTables
    /\ manual_overrides = {}
    /\ capacity_overrides = {}
    /\ depots = RunningDepotRows
    /\ collection_points = RunningCollectionPointRows
    /\ cp_depot_distances \in {<<>>, RowsOfAll(RunningCollectionPointRows, RunningDepotRows)}
    /\ pc = "idle"
    /\ selected_date = 0
    /\ volumes_sorted = <<>>
    /\ override_map = <<>>
    /\ depot_map = <<>>
    /\ depot_base_capacities = <<>>
    /\ depot_allocated = <<>>
    /\ allocations = <<>>
    /\ vi = 0
    /\ trailer_num = 0
    /\ distances = <<>>
    /\ depot_summaries = <<>>
    /\ at_start = <<>>
    /\ returned = [d \in Dates |-> NotReturned]
    /\ probe = NoProbe
    /\ NoRequests

NextWhileRunning ==
    \/ Next
    \/ calculate_distances
    \/ \E cp \in CollectionPointFileRows : add_collection_point(cp)

SpecWhileRunning == InitWhileRunning /\ [][NextWhileRunning]_vars

\* the collection point was stored when the call began
StoredAtStart(cpid) ==
    \E j \in 1..Len(at_start[1]) : at_start[1][j].cpid = cpid

\* the ranking of the collection point as it was stored when the call began
DistancesAtStart(cpid) ==
    OrderByRank(SelectSeq(at_start[2], LAMBDA r : r.cpid = cpid))

(* C21: the call works on the data as of its start: the ranking it scans for
   a volume row is the one stored when the call began, and every allocation
   it outputs is of a collection point stored then, to a depot of that
   collection point's ranking as stored then. *)
C21_OutputAsOfStart ==
    /\ pc = "trailer" =>
          /\ StoredAtStart(volumes_sorted[vi].cpid)
          /\ distances = DistancesAtStart(volumes_sorted[vi].cpid)
    /\ \A i \in 1..Len(allocations) :
          /\ StoredAtStart(allocations[i].cpid)
          /\ \E k \in 1..Len(at_start[2]) :
                /\ at_start[2][k].cpid = allocations[i].cpid
                /\ at_start[2][k].depot_id = allocations[i].depot_id
                /\ at_start[2][k].distance_miles = allocations[i].distance

----------------------------------------------------------------------------
(* Data entry: import_volumes_upload, add_override and update_depot_times of
   app/main.py, followed by calls of get_allocations on what they stored.  A
   request of import_volumes_upload is followed row by row; a query of its
   session sees the committed rows and the rows the session has added. *)

NineAm == <<"9", "a", "m">>
EightAm == <<"8", "a", "m">>

\* the 'Collection Time' cell of a row of the file: empty, a time, four
\* digits, text without a colon, text with a colon
Cells == {<<>>, T0700, <<"0", "9", "3", "0">>, NineAm, <<"a", "b", ":", "c", "d">>}

\* ':' in ct_str
HasColon(text) == \E i \in 1..Len(text) : text[i] = ":"

\* ct_str.isdigit()
IsDigit(text) == text # <<>> /\ \A i \in 1..Len(text) : text[i] \in Digits

\* the collection time stored for a cell (lines 495-505)
StoredTime(cell) ==
    IF cell = <<>> THEN T0900
    ELSE IF HasColon(cell) THEN SubSeq(cell, 1, IF Len(cell) < 5 THEN Len(cell) ELSE 5)
    ELSE IF Len(cell) = 4 /\ IsDigit(cell)
    THEN SubSeq(cell, 1, 2) \o <<":">> \o SubSeq(cell, 3, 4)
    ELSE T0900

\* the rows of the files uploaded: CP009 is not a stored collection point
VolumeFileRows ==
    {[date |-> 1, cpid |-> c, parcels |-> 7, trailers |-> 2, cell |-> t] :
        c \in {"CP001", "CP009"}, t \in Cells}

\* the rows a query of the request's session sees
Visible(r) == daily_volumes \o uploads[r].pending

\* lines 455-471: the file is read
upload_begin(r, file) ==
    /\ uploads[r].state = "none"
    /\ uploads' = [uploads EXCEPT ![r] =
                      [state |-> "reading", file |-> file, pending |-> <<>>]]
    /\ UNCHANGED <<db_vars, run_vars, returned, probe, auth_vars>>

\* lines 473-518: one row of the file
upload_row(r) ==
    LET row == Head(uploads[r].file)
        existing == \E i \in 1..Len(Visible(r)) :
                        /\ Visible(r)[i].date = row.date
                        /\ Visible(r)[i].cpid = row.cpid
        volume == [date |-> row.date, cpid |-> row.cpid, parcels |-> row.parcels,
                   trailers |-> row.trailers, collection_time |-> StoredTime(row.cell)]
    IN
    /\ uploads[r].state = "reading"
    /\ uploads[r].file # <<>>
    /\ uploads' = [uploads EXCEPT ![r] =
                      [state |-> "reading",
                       file |-> Tail(uploads[r].file),
                       pending |-> IF ~CollectionPointExists(row.cpid) \/ existing
                                   THEN uploads[r].pending
                                   ELSE Append(uploads[r].pending, volume)]]
    /\ UNCHANGED <<db_vars, run_vars, returned, probe, auth_vars>>

\* line 520: db.commit()
upload_commit(r) ==
    /\ uploads[r].state = "reading"
    /\ uploads[r].file = <<>>
    /\ Len(daily_volumes \o uploads[r].pending) <= MaxVolumes
    /\ daily_volumes' = daily_volumes \o uploads[r].pending
    /\ uploads' = [uploads EXCEPT ![r] = NoUpload]
    /\ UNCHANGED <<manual_overrides, capacity_overrides, depots, collection_points,
                   cp_depot_distances, run_vars, returned, probe, auth_vars>>

\* the forms posted to add_override: D999 is not a stored depot
OverrideForms ==
    {[date |-> 1, cpid |-> "CP001", trailer_number |-> 1,
      collection_time |-> f[1], to_depot_id |-> f[2]] :
        f \in {<<T0900, "D001">>, <<T0900, "D999">>, <<NineAm, "D001">>}}

\* add_override: refused when an override of the same date, collection point,
\* trailer and collection time is stored, else stored as posted
add_override(form) ==
    LET existing == \E o \in manual_overrides : OverrideKey(o) = OverrideKey(form)
    IN
    /\ existing \/ Cardinality(manual_overrides) < MaxOverrides
    /\ manual_overrides' = IF existing THEN manual_overrides
                           ELSE manual_overrides \cup {form}
    /\ UNCHANGED <<daily_volumes, capacity_overrides, depots, collection_points,
                   cp_depot_distances, run_vars, returned, probe, web_vars>>

\* the forms posted to update_depot_times: start and cutoff per depot id
DepotTimeForms ==
    {[d \in {"D001"} |-> w] :
        w \in {<<T0800, T1800>>, <<EightAm, T1800>>, <<T0700, <<>> >>}}

\* update_depot_times: every active depot with both fields filled in takes them
update_depot_times(form_data) ==
    /\ depots' =
          [i \in 1..Len(depots) |->
              IF /\ depots[i].is_active
                 /\ depots[i].depot_id \in DOMAIN form_data
                 /\ form_data[depots[i].depot_id][1] # <<>>
                 /\ form_data[depots[i].depot_id][2] # <<>>
              THEN [depots[i] EXCEPT
                       !.sortation_start_time = form_data[depots[i].depot_id][1],
                       !.cutoff_time = form_data[depots[i].depot_id][2]]
              ELSE depots[i]]
    /\ UNCHANGED <<daily_volumes, manual_overrides, capacity_overrides,
                   collection_points, cp_depot_distances, run_vars, returned,
                   probe, web_vars>>

\* the stored master data, no volume and no override yet
InitDataEntry ==
    /\ daily_volumes = <<>>
    /\ manual_overrides = {}
    /\ capacity_overrides = {}
    /\ depots = DepotRows
    /\ collection_points = CollectionPointRows
    /\ cp_depot_distances = DistanceRows
    /\ pc = "idle"
    /\ selected_date = 0
    /\ volumes_sorted = <<>>
    /\ override_map = <<>>
    /\ depot_map = <<>>
    /\ depot_base_capacities = <<>>
    /\ depot_allocated = <<>>
    /\ allocations = <<>>
    /\ vi = 0
    /\ trailer_num = 0
    /\ distances = <<>>
    /\ depot_summaries = <<>>
    /\ at_start = <<>>
    /\ returned = [d \in Dates |-> NotReturned]
    /\ probe = NoProbe
    /\ NoRequests

NextDataEntry ==
    \/ \E row \in VolumeFileRows : upload_begin(1, <<row>>)
    \/ upload_row(1)
    \/ upload_commit(1)
    \/ \E form \in OverrideForms : add_override(form)
    \/ \E form_data \in DepotTimeForms : update_depot_times(form_data)
    \/ Next

SpecDataEntry == InitDataEntry /\ [][NextDataEntry]_vars

\* HH:MM with two digits each, an hour below 24 and a minute below 60
WellFormed(text) ==
    /\ Len(text) = 5
    /\ text[3] = ":"
    /\ \A i \in {1, 2, 4, 5} : text[i] \in Digits
    /\ DigitVal(text[1]) * 10 + DigitVal(text[2]) < 24
    /\ DigitVal(text[4]) < 6

(* C22: every collection time, sortation start and cutoff that is stored is
   well-formed HH:MM, and a call of get_allocations that fails had no stored
   time of its date or of an active depot that time_to_minutes cannot read. *)
C22_StoredTimesWellFormed ==
    /\ \A i \in 1..Len(daily_volumes) : WellFormed(daily_volumes[i].collection_time)
    /\ \A o \in manual_overrides : WellFormed(o.collection_time)
    /\ \A i \in 1..Len(depots) :
          /\ WellFormed(depots[i].sortation_start_time)
          /\ WellFormed(depots[i].cutoff_time)
    /\ pc = "error" =>
          /\ \A i \in 1..Len(daily_volumes) :
                daily_volumes[i].date = selected_date
                   => SortKey(daily_volumes[i]) # ValueError
          /\ \A i \in 1..Len(depot_map) : ~WindowUnreadable(depot_map[i])

\* a call has failed on a stored time that cannot be read
C22_FailsOnTime ==
    ~(/\ pc = "error"
      /\ \/ \E i \in 1..Len(daily_volumes) :
               /\ daily_volumes[i].date = selected_date
               /\ SortKey(daily_volumes[i]) = ValueError
         \/ \E i \in 1..Len(depot_map) : WindowUnreadable(depot_map[i]))

\* the key under which the trailer being processed is looked up in override_map
CurrentOverrideKey ==
    <<volumes_sorted[vi].cpid, trailer_num,
      OrDefault(volumes_sorted[vi].collection_time, T0900)>>

(* C23: every stored manual override names a stored depot, and the depot an
   override gives to the trailer being processed has a counter in
   depot_allocated. *)
C23_OverrideTargetsExist ==
    /\ \A o \in manual_overrides : DepotStored(o.to_depot_id)
    /\ (pc = "trailer" /\ CurrentOverrideKey \in DOMAIN override_map)
          => override_map[CurrentOverrideKey] \in DOMAIN depot_allocated

\* a call has come to a trailer whose override names a depot without a counter
C23_MeetsUnknownTarget ==
    ~(/\ pc = "trailer"
      /\ CurrentOverrideKey \in DOMAIN override_map
      /\ override_map[CurrentOverrideKey] \notin DOMAIN depot_allocated)

----------------------------------------------------------------------------
(* Arrival times: calls of get_allocations, and calculate_arrival_time called
   on its own with an absent collection time, midnight and two other times. *)

T0000 == <<"0", "0", ":", "0", "0">>

ArrivalCollectionTimes == {<<>>, T0000, T0700, T0900}

ArrivalDistances == {0, 691}

CallArrivalTime ==
    \E collection_time_str \in ArrivalCollectionTimes, distance_miles \in ArrivalDistances :
        /\ probe = NoProbe
        /\ probe' = [fn |-> "calculate_arrival_time",
                     args |-> <<collection_time_str, distance_miles>>,
                     result |-> calculate_arrival_time(collection_time_str, distance_miles)]
        /\ UNCHANGED <<db_vars, web_vars, run_vars, returned>>

\* the stored tables without capacity overrides
InitArrival ==
    /\ Init
    /\ capacity_overrides = {}

NextArrival ==
    \/ Next
    \/ CallArrivalTime

SpecArrival == InitArrival /\ [][NextArrival]_vars

\* minutes since midnight of a well-formed HH:MM
ClockMinutes(text) ==
    (DigitVal(text[1]) * 10 + DigitVal(text[2])) * 60
       + DigitVal(text[4]) * 10 + DigitVal(text[5])

\* collection + 60 + distance / 40 * 60 minutes, in ticks of 1/200 minute, for a
\* distance in hundredths of a mile
ReferenceArrival(collection_time, distance) ==
    (ClockMinutes(collection_time) + 60) * 200 + 3 * distance

\* HH:MM of a time in ticks, whole minutes
ClockText(ticks) ==
    LET h == ticks \div 12000
        m == (ticks \div 200) % 60
    IN <<DigitChars[(h \div 10) + 1], DigitChars[(h % 10) + 1], ":",
         DigitChars[(m \div 10) + 1], DigitChars[(m % 10) + 1]>>

\* the distance stored for the depot of an allocation in the ranking of its
\* collection point, 0 when the ranking does not list the depot
StoredDistance(a) ==
    IF \E r \in Ranking(a.cpid) : r.depot_id = a.depot_id
    THEN RowOf(a).distance_miles ELSE 0

(* C24: calculate_arrival_time returns collection minutes + 60 + distance /
   40 * 60, with 09:00 for an absent collection time and any present time
   taken as given; the arrival time reported for an allocation is that value
   for the row's collection time and the assigned depot's stored distance,
   and an automatic allocation that is no peak arrival passed the capacity
   check at that arrival. *)
C24_ArrivalFormula ==
    /\ [](probe.fn = "calculate_arrival_time" =>
             probe.result =
                ReferenceArrival(IF probe.args[1] = <<>> THEN T0900 ELSE probe.args[1],
                                 probe.args[2]))
    /\ [][Allocates =>
             LET a == NewAllocation
                 v == volumes_sorted[vi]
                 arrival == ReferenceArrival(a.collection_time, a.distance)
             IN /\ a.collection_time =
                      (IF v.collection_time = <<>> THEN T0900 ELSE v.collection_time)
                /\ a.distance = StoredDistance(a)
                /\ a.arrival_time = ClockText(arrival)
                /\ (~a.is_override /\ ~a.is_peak_arrival) =>
                      depot_allocated[a.depot_id] + a.parcels
                         <= calculate_available_capacity(
                                StoredDepot(a.depot_id), arrival,
                                EffectiveCapacity(a.depot_id, selected_date))]_vars

\* calculate_arrival_time has been called without a collection time, and a
\* call has output an automatic allocation to a depot 30 miles away for a
\* 07:00 collection, arriving at 08:45
C24_Witness ==
    /\ probe.fn = "calculate_arrival_time"
    /\ probe.args[1] = <<>>
    /\ probe.args[2] > 0
    /\ \E i \in 1..Len(allocations) :
          /\ ~allocations[i].is_override
          /\ ~allocations[i].is_peak_arrival
          /\ allocations[i].collection_time = T0700
          /\ allocations[i].distance = 3000
          /\ allocations[i].arrival_time = <<"0", "8", ":", "4", "5">>

----------------------------------------------------------------------------
\* the step changes the distance table and not the collection points: it is a
\* step of calculate_distances
DistancesCalculated ==
    cp_depot_distances' # cp_depot_distances /\ collection_points' = collection_points

\* the distance table after one more call of calculate_distances
AfterOneMoreCall ==
    IF Len(cp_depot_distances') > 0 THEN cp_depot_distances'
    ELSE RowsOfAll(collection_points', depots')

(* C25: calculate_distances changes the distance table only when the table is
   empty, and a second call right after it changes nothing; every step of the
   imports and of add_collection_point keeps the stored distance rows as they
   are and in place, and the rows add_collection_point appends are all of the
   collection point it has just stored. *)
C25_DistancesIdempotent ==
    [][ /\ DistancesCalculated =>
              /\ cp_depot_distances = <<>>
              /\ AfterOneMoreCall = cp_depot_distances'
        /\ Len(cp_depot_distances') >= Len(cp_depot_distances)
        /\ SubSeq(cp_depot_distances', 1, Len(cp_depot_distances)) = cp_depot_distances
        /\ collection_points' # collection_points =>
              \A k \in (Len(cp_depot_distances) + 1)..Len(cp_depot_distances') :
                 /\ cp_depot_distances'[k].cpid =
                       collection_points'[Len(collection_points')].cpid
                 /\ \A j \in 1..Len(collection_points) :
                       collection_points[j].cpid # cp_depot_distances'[k].cpid ]_vars

\* CP001 was ranked when one depot was stored, CP002 was added after a second
\* depot had been imported: the rows of CP001 are as they were
C25_Witness ==
    /\ RowCount("CP001") = 1
    /\ RowCount("CP002") = 2
    /\ Len(depots) = 2

----------------------------------------------------------------------------
\* how many distance rows are stored for the pair
PairCount(cpid, depot_id) ==
    Cardinality({k \in 1..Len(cp_depot_distances) :
                    /\ cp_depot_distances[k].cpid = cpid
                    /\ cp_depot_distances[k].depot_id = depot_id})

StoredCpids == {collection_points[i].cpid : i \in 1..Len(collection_points)}

(* C26, as stated: the distance table holds exactly one row for each pair of
   a stored collection point and a stored depot. *)
C26_AsStated ==
    \A cpid \in StoredCpids : \A depot_id \in StoredDepotIds :
        PairCount(cpid, depot_id) = 1

(* C26, amended: every distance row is of a stored collection point and a
   stored depot, no pair has more than one row, and a collection point that
   has rows has one for each depot that was stored when they were written,
   that is, for the first depots of the depot table and for no later one. *)
C26_Amended ==
    /\ \A k \in 1..Len(cp_depot_distances) :
          /\ cp_depot_distances[k].cpid \in StoredCpids
          /\ cp_depot_distances[k].depot_id \in StoredDepotIds
    /\ \A cpid \in StoredCpids : \A depot_id \in StoredDepotIds :
          PairCount(cpid, depot_id) <= 1
    /\ \A cpid \in StoredCpids :
          /\ RowCount(cpid) <= Len(depots)
          /\ {r.depot_id : r \in RowsFor(cpid)} =
                {depots[i].depot_id : i \in 1..RowCount(cpid)}

\* three depots are stored; CP001 was ranked when there were two of them and
\* CP002 was added after the third
C26_Witness ==
    /\ Len(depots) = 3
    /\ RowCount("CP001") = 2
    /\ RowCount("CP002") = 3

----------------------------------------------------------------------------
(* Two requests of import_volumes_upload at the same time, each with its own
   session: a query of a request sees the committed rows and the rows its own
   session has added, not the rows another request has yet to commit. *)

\* files of one or two rows for CP001 on date 1, or for the unknown CP009
ImportFiles ==
    FilesOf({row \in VolumeFileRows :
                \/ row.cpid = "CP001" /\ row.cell \in {<<>>, T0700}
                \/ row.cpid = "CP009" /\ row.cell = <<>>})

NextImports ==
    \/ \E r \in Requests, file \in ImportFiles : upload_begin(r, file)
    \/ \E r \in Requests : upload_row(r)
    \/ \E r \in Requests : upload_commit(r)

SpecImports == InitDataEntry /\ [][NextImports]_vars

(* C27: the stored daily volumes hold at most one row for each (date,
   collection point), whatever imports ran and however they interleaved. *)
C27_OneRowPerDateAndCp ==
    \A i, j \in 1..Len(daily_volumes) :
        i # j => VolumeKey(daily_volumes[i]) # VolumeKey(daily_volumes[j])

----------------------------------------------------------------------------
\* the parcels of the output allocations that name the depot
OutputTotal(depot_id) == SumParcels(AllocationsAt(allocations, depot_id))

\* the output has an allocation to the depot that is a manual override or a
\* peak arrival
HasForcedTrailer(depot_id) ==
    \E i \in 1..Len(allocations) :
        /\ allocations[i].depot_id = depot_id
        /\ allocations[i].is_override \/ allocations[i].is_peak_arrival

\* add_capacity_override stores any integer the form carries
SignedCapacityOverrideTables ==
    CapacityOverrideTables
        \cup {{[date |-> 1, depot_id |-> d, override_capacity |-> -1]} :
                 d \in {"D001", "D002"}}

InitSignedCapacity ==
    /\ daily_volumes \in VolumeTables
    /\ manual_overrides \in OverrideTables
    /\ capacity_overrides \in SignedCapacityOverrideTables
    /\ depots = DepotRows
    /\ collection_points = CollectionPointRows
    /\ cp_depot_distances = DistanceRows
    /\ pc = "idle"
    /\ selected_date = 0
    /\ volumes_sorted = <<>>
    /\ override_map = <<>>
    /\ depot_map = <<>>
    /\ depot_base_capacities = <<>>
    /\ depot_allocated = <<>>
    /\ allocations = <<>>
    /\ vi = 0
    /\ trailer_num = 0
    /\ distances = <<>>
    /\ depot_summaries = <<>>
    /\ at_start = <<>>
    /\ returned = [d \in Dates |-> NotReturned]
    /\ probe = NoProbe
    /\ NoRequests

SpecSignedCapacity == InitSignedCapacity /\ [][Next]_vars

\* at the end of a call every depot above its effective capacity has a
\* manual-override or peak-arrival allocation, and an output without such
\* allocations leaves every depot within its effective capacity
C28_AsStated ==
    pc = "done" =>
        /\ \A depot_id \in StoredDepotIds :
              OutputTotal(depot_id) > EffectiveCapacity(depot_id, selected_date)
                 => HasForcedTrailer(depot_id)
        /\ (\A i \in 1..Len(allocations) :
               ~allocations[i].is_override /\ ~allocations[i].is_peak_arrival)
              => \A depot_id \in StoredDepotIds :
                    OutputTotal(depot_id) <= EffectiveCapacity(depot_id, selected_date)

(* C28: at the end of a call, a stored depot whose output allocations carry
   more parcels than its effective capacity for the date, a negative
   capacity counting as zero, has at least one manual-override or
   peak-arrival allocation; when the output has no such allocation at all,
   every depot's total is at most the larger of its effective capacity and
   zero. *)
C28_OverCapacityOnlyWhenForced ==
    pc = "done" =>
        /\ \A depot_id \in StoredDepotIds :
              OutputTotal(depot_id)
                    > Max(EffectiveCapacity(depot_id, selected_date), 0)
                 => HasForcedTrailer(depot_id)
        /\ (\A i \in 1..Len(allocations) :
               ~allocations[i].is_override /\ ~allocations[i].is_peak_arrival)
              => \A depot_id \in StoredDepotIds :
                    OutputTotal(depot_id)
                       <= Max(EffectiveCapacity(depot_id, selected_date), 0)

\* a finished call for a date on which a depot has a negative capacity
\* override and is skipped by the scan while other depots are allocated to
C28_NegativeCapacityWitness ==
    /\ pc = "done"
    /\ Len(allocations) > 0
    /\ \E depot_id \in StoredDepotIds :
          /\ EffectiveCapacity(depot_id, selected_date) < 0
          /\ OutputTotal(depot_id) = 0

\* a finished call that left a depot above its effective capacity through a
\* peak arrival, after automatic allocations to it
C28_Witness ==
    /\ pc = "done"
    /\ \E depot_id \in StoredDepotIds :
          /\ OutputTotal(depot_id) > EffectiveCapacity(depot_id, selected_date)
          /\ EffectiveCapacity(depot_id, selected_date) > 0
          /\ \E i, j \in 1..Len(allocations) :
                /\ allocations[i].depot_id = depot_id
                /\ allocations[j].depot_id = depot_id
                /\ allocations[i].is_peak_arrival
                /\ ~allocations[j].is_peak_arrival /\ ~allocations[j].is_override

----------------------------------------------------------------------------
(* C29: during a call, after every step of the loop, each depot's counter is
   the sum of the parcels of the allocations output so far that name the
   depot; at the end every summary entry's allocated_parcels is that sum
   over the whole output, and the total the depot allocations page adds up
   for each active depot is the counter get_allocations ended with. *)
C29_CountersMatchOutput ==
    /\ InRun =>
          \A depot_id \in DOMAIN depot_allocated :
              depot_allocated[depot_id] = OutputTotal(depot_id)
    /\ pc = "done" =>
          /\ \A i \in 1..Len(depot_summaries) :
                depot_summaries[i].allocated_parcels
                   = OutputTotal(depot_summaries[i].depot_id)
          /\ \A i \in 1..Len(depot_map) :
                depot_data(depot_map[i], allocations, selected_date).allocated_parcels
                   = depot_allocated[depot_map[i].depot_id]

\* a finished call whose output sends a depot an overridden trailer and an
\* automatic one, both with parcels, and whose summary has two entries
C29_Witness ==
    /\ pc = "done"
    /\ Len(depot_summaries) >= 2
    /\ \E i, j \in 1..Len(allocations) :
          /\ allocations[i].depot_id = allocations[j].depot_id
          /\ allocations[i].is_override /\ allocations[i].parcels > 0
          /\ ~allocations[j].is_override /\ allocations[j].parcels > 0

----------------------------------------------------------------------------
(* login (routers/auth_router.py): the lockout after repeated wrong
   passwords.  A request is the posted username, whether the posted password
   verifies against the stored hash, and whether the posted CSRF token
   matches the cookie. *)

MaxClock == 30

\* the minutes that pass between two readings of the clock
TickMinutes == 5

\* timedelta(minutes=15)
LockMinutes == 15

\* if user.failed_login_attempts >= 5
MaxFailedAttempts == 5

\* the usernames a login form is posted with: "nobody" is not stored
LoginNames == {"admin", "operator", "nobody"}

\* lines 65-66: user.locked_until is set and still ahead
is_locked(user, now) == user.locked_until # NoLock /\ now < user.locked_until

\* lines 84-85: the lock has run out
unlocked(user) ==
    [user EXCEPT !.locked_until = NoLock, !.failed_login_attempts = 0]

\* mutant: the account is locked one wrong password later
failed_locking_late(user, now) ==
    LET attempts == user.failed_login_attempts + 1 IN
    [user EXCEPT !.failed_login_attempts = attempts,
                 !.locked_until = IF attempts > MaxFailedAttempts
                                  THEN now + LockMinutes ELSE @]

\* lines 101-103: a wrong password is counted
failed(user, now) ==
    LET attempts == user.failed_login_attempts + 1 IN
    [user EXCEPT !.failed_login_attempts = attempts,
                 !.locked_until = IF attempts >= MaxFailedAttempts
                                  THEN now + LockMinutes ELSE @]

\* lines 155-156: the login succeeds
succeeded(user) ==
    [user EXCEPT !.failed_login_attempts = 0, !.locked_until = NoLock]

\* the response to a request, told from the one before it by `request`
Responds(username, password_ok, csrf_ok, outcome) ==
    response' = [request |-> 1 - response.request, username |-> username,
                 password_ok |-> password_ok, csrf_ok |-> csrf_ok,
                 outcome |-> outcome]

login(username, password_ok, csrf_ok) ==
    LET stored == username \in DOMAIN users
        user == users[username]
        checked == IF user.locked_until # NoLock THEN unlocked(user) ELSE user
    IN
    /\ IF ~csrf_ok
       THEN /\ Responds(username, password_ok, csrf_ok, "csrf_failed")
            /\ users' = users
       ELSE IF stored /\ is_locked(user, clock)
       THEN /\ Responds(username, password_ok, csrf_ok, "locked")
            /\ users' = users
       ELSE IF ~stored
       THEN /\ Responds(username, password_ok, csrf_ok, "invalid")
            /\ users' = users
       ELSE IF ~password_ok
       THEN /\ users' = [users EXCEPT ![username] = failed(checked, clock)]
            /\ Responds(username, password_ok, csrf_ok,
                        IF failed(checked, clock).failed_login_attempts
                              >= MaxFailedAttempts
                        THEN "too_many" ELSE "invalid")
       ELSE IF ~checked.is_active
       THEN /\ users' = [users EXCEPT ![username] = checked]
            /\ Responds(username, password_ok, csrf_ok, "disabled")
       ELSE /\ users' = [users EXCEPT ![username] = succeeded(checked)]
            /\ Responds(username, password_ok, csrf_ok, "access_token")
    /\ UNCHANGED <<db_vars, run_vars, returned, probe, uploads, clock>>

\* main.py, disable_user: any user but admin
disable_user(username) ==
    /\ username \in DOMAIN users
    /\ username # "admin"
    /\ users' = [users EXCEPT ![username].is_active = FALSE]
    /\ UNCHANGED <<db_vars, run_vars, returned, probe, uploads, clock, response>>

\* main.py, enable_user
enable_user(username) ==
    /\ username \in DOMAIN users
    /\ users' = [users EXCEPT ![username].is_active = TRUE]
    /\ UNCHANGED <<db_vars, run_vars, returned, probe, uploads, clock, response>>

\* time passes
Tick ==
    /\ clock + TickMinutes <= MaxClock
    /\ clock' = clock + TickMinutes
    /\ UNCHANGED <<db_vars, run_vars, returned, probe, uploads, users, response>>

\* the application right after init_db and add_user, with empty tables
InitLogin ==
    /\ Init
    /\ daily_volumes = <<>>
    /\ manual_overrides = {}
    /\ capacity_overrides = {}

NextLogin ==
    \/ \E username \in LoginNames, password_ok \in BOOLEAN, csrf_ok \in BOOLEAN :
          login(username, password_ok, csrf_ok)
    \/ \E username \in LoginNames : disable_user(username)
    \/ \E username \in LoginNames : enable_user(username)
    \/ Tick

SpecLogin == InitLogin /\ [][NextLogin]_vars

\* the step is a login request for the stored user that passed the CSRF check
LoginStep(username) ==
    /\ response' # response
    /\ response'.username = username
    /\ response'.csrf_ok

\* the user's lock is set and has run out
LockExpired(username) ==
    /\ users[username].locked_until # NoLock
    /\ clock >= users[username].locked_until

\* what the lockout does whatever the reading of "a login after expiry":
\* the counter stays within 5, the fifth wrong password in a row locks for
\* 15 minutes, a locked user is turned away with nothing changed, a token is
\* issued only to an unlocked user with the right password, and a successful
\* login clears counter and lock
LockoutRules ==
    /\ [](\A username \in DOMAIN users :
              users[username].failed_login_attempts <= MaxFailedAttempts)
    /\ [][\A username \in DOMAIN users : LoginStep(username) =>
            /\ is_locked(users[username], clock) =>
                  /\ response'.outcome = "locked"
                  /\ users' = users
            /\ (/\ ~is_locked(users[username], clock)
                /\ ~response'.password_ok
                /\ users[username].failed_login_attempts = MaxFailedAttempts - 1) =>
                  /\ users'[username].failed_login_attempts = MaxFailedAttempts
                  /\ users'[username].locked_until = clock + LockMinutes
                  /\ response'.outcome = "too_many"
            /\ response'.outcome = "access_token" =>
                  /\ ~is_locked(users[username], clock)
                  /\ response'.password_ok
                  /\ users'[username].failed_login_attempts = 0
                  /\ users'[username].locked_until = NoLock
            /\ (/\ ~is_locked(users[username], clock)
                /\ response'.password_ok
                /\ users[username].is_active) =>
                  response'.outcome = "access_token"
         ]_vars

\* a login after the lock has run out leaves the counter at 0 and no lock
C30_AsStated ==
    /\ LockoutRules
    /\ [][\A username \in DOMAIN users :
             LoginStep(username) /\ LockExpired(username) =>
                /\ users'[username].failed_login_attempts = 0
                /\ users'[username].locked_until = NoLock
         ]_vars

(* C30: failed_login_attempts never exceeds 5; the fifth wrong password in a
   row sets locked_until 15 minutes ahead; while the clock is before
   locked_until every login of the user is turned away without a token,
   whatever the password, and nothing of the user changes; a successful
   login sets the counter to 0 and clears the lock; a login after the lock
   has run out clears the lock and starts the count again: the counter is 0
   after the right password and 1 after a wrong one. *)
C30_LoginLockout ==
    /\ LockoutRules
    /\ [][\A username \in DOMAIN users :
             LoginStep(username) /\ LockExpired(username) =>
                /\ users'[username].failed_login_attempts
                      = IF response'.password_ok THEN 0 ELSE 1
                /\ users'[username].locked_until = NoLock
         ]_vars

\* a locked user was turned away with the right password, before the lock
\* ran out and after time has passed
C30_Witness ==
    /\ response.outcome = "locked"
    /\ response.password_ok
    /\ response.username \in DOMAIN users
    /\ users[response.username].failed_login_attempts = MaxFailedAttempts
    /\ clock > 0
    /\ clock < users[response.username].locked_until

\* a user whose lock had run out posted a wrong password and has one failed
\* attempt: the clock is past any lock set before and no lock is stored
C30_ExpiryWitness ==
    /\ response.outcome = "invalid"
    /\ response.username = "operator"
    /\ response.csrf_ok
    /\ users["operator"].failed_login_attempts = 1
    /\ users["operator"].locked_until = NoLock
    /\ users["admin"].locked_until # NoLock
    /\ clock >= users["admin"].locked_until

====
